---------------------------- MODULE Spec2Model ----------------------------
(***************************************************************************)
(* Table-driven LL(1) parser for a Pascal subset: the grammar tables of    *)
(* grammar.py, the pushdown loop of LL1Parser.parse (parser.py) and the    *)
(* parse tree it builds (parse_tree.py).                                   *)
(***************************************************************************)
EXTENDS Integers, Sequences, FiniteSets, TLC

(***************************************************************************)
(* Grammar symbols and tables (grammar.py).  The epsilon symbol is written *)
(* "epsilon"; every other symbol keeps its spelling.                       *)
(***************************************************************************)
NONTERMINALS ==
    <<"Program", "Block", "Declarations", "DeclList", "DeclListP", "Decl",
    "IdList", "IdListP", "Type", "StmtList", "StmtListP", "Statement",
    "AssignStmt", "IfStmt", "ElsePart", "WhileStmt", "ReadStmt",
    "WriteStmt", "ExprList", "ExprListP", "BoolExpr", "RelOp",
    "Expression", "ExpressionP", "Term", "TermP", "Factor">>

TERMINALS ==
    <<"program", "id", ";", ".", "var", "begin", "end", ":", ",",
    "integer", "real", "boolean", ":=", "if", "then", "else", "while",
    "do", "read", "write", "(", ")", "+", "-", "*", "/", "div", "mod", "<",
    ">", "<=", ">=", "=", "<>", "num", "$">>

EPSILON == "epsilon"

PRODUCTIONS ==
    "Program" :> <<<<"program", "id", ";", "Block", ".">>>>
    @@ "Block" :> <<<<"Declarations", "begin", "StmtList", "end">>>>
    @@ "Declarations" :> <<<<"var", "DeclList">>, <<"epsilon">>>>
    @@ "DeclList" :> <<<<"Decl", "DeclListP">>>>
    @@ "DeclListP" :> <<<<"Decl", "DeclListP">>, <<"epsilon">>>>
    @@ "Decl" :> <<<<"IdList", ":", "Type", ";">>>>
    @@ "IdList" :> <<<<"id", "IdListP">>>>
    @@ "IdListP" :> <<<<",", "id", "IdListP">>, <<"epsilon">>>>
    @@ "Type" :> <<<<"integer">>, <<"real">>, <<"boolean">>>>
    @@ "StmtList" :> <<<<"Statement", "StmtListP">>>>
    @@ "StmtListP" :> <<<<";", "Statement", "StmtListP">>, <<"epsilon">>>>
    @@ "Statement" :> <<<<"id", ":=", "Expression">>, <<"IfStmt">>,
           <<"WhileStmt">>, <<"ReadStmt">>, <<"WriteStmt">>,
           <<"begin", "StmtList", "end">>, <<"epsilon">>>>
    @@ "AssignStmt" :> <<<<"id", ":=", "Expression">>>>
    @@ "IfStmt" :> <<<<"if", "BoolExpr", "then", "Statement", "ElsePart">>>>
    @@ "ElsePart" :> <<<<"else", "Statement">>, <<"epsilon">>>>
    @@ "WhileStmt" :> <<<<"while", "BoolExpr", "do", "Statement">>>>
    @@ "ReadStmt" :> <<<<"read", "(", "IdList", ")">>>>
    @@ "WriteStmt" :> <<<<"write", "(", "ExprList", ")">>>>
    @@ "ExprList" :> <<<<"Expression", "ExprListP">>>>
    @@ "ExprListP" :> <<<<",", "Expression", "ExprListP">>, <<"epsilon">>>>
    @@ "BoolExpr" :> <<<<"Expression", "RelOp", "Expression">>>>
    @@ "RelOp" :> <<<<"<">>, <<">">>, <<"<=">>, <<">=">>, <<"=">>, <<"<>">>>>
    @@ "Expression" :> <<<<"Term", "ExpressionP">>>>
    @@ "ExpressionP" :> <<<<"+", "Term", "ExpressionP">>,
           <<"-", "Term", "ExpressionP">>, <<"epsilon">>>>
    @@ "Term" :> <<<<"Factor", "TermP">>>>
    @@ "TermP" :> <<<<"*", "Factor", "TermP">>, <<"/", "Factor", "TermP">>,
           <<"div", "Factor", "TermP">>, <<"mod", "Factor", "TermP">>,
           <<"epsilon">>>>
    @@ "Factor" :> <<<<"(", "Expression", ")">>, <<"id">>, <<"num">>,
           <<"+", "Factor">>, <<"-", "Factor">>>>

PARSE_TABLE ==
    "Program" :> (
           "program" :> <<"program", "id", ";", "Block", ".">>)
    @@ "Block" :> (
           "var" :> <<"Declarations", "begin", "StmtList", "end">>
           @@ "begin" :> <<"Declarations", "begin", "StmtList", "end">>)
    @@ "Declarations" :> (
           "var" :> <<"var", "DeclList">>
           @@ "begin" :> <<"epsilon">>)
    @@ "DeclList" :> (
           "id" :> <<"Decl", "DeclListP">>)
    @@ "DeclListP" :> (
           "id" :> <<"Decl", "DeclListP">>
           @@ "begin" :> <<"epsilon">>)
    @@ "Decl" :> (
           "id" :> <<"IdList", ":", "Type", ";">>)
    @@ "IdList" :> (
           "id" :> <<"id", "IdListP">>)
    @@ "IdListP" :> (
           "," :> <<",", "id", "IdListP">>
           @@ ":" :> <<"epsilon">>
           @@ ")" :> <<"epsilon">>)
    @@ "Type" :> (
           "integer" :> <<"integer">>
           @@ "real" :> <<"real">>
           @@ "boolean" :> <<"boolean">>)
    @@ "StmtList" :> (
           "id" :> <<"Statement", "StmtListP">>
           @@ "if" :> <<"Statement", "StmtListP">>
           @@ "while" :> <<"Statement", "StmtListP">>
           @@ "read" :> <<"Statement", "StmtListP">>
           @@ "write" :> <<"Statement", "StmtListP">>
           @@ "begin" :> <<"Statement", "StmtListP">>
           @@ "end" :> <<"Statement", "StmtListP">>)
    @@ "StmtListP" :> (
           ";" :> <<";", "Statement", "StmtListP">>
           @@ "end" :> <<"epsilon">>)
    @@ "Statement" :> (
           "id" :> <<"id", ":=", "Expression">>
           @@ "if" :> <<"IfStmt">>
           @@ "while" :> <<"WhileStmt">>
           @@ "read" :> <<"ReadStmt">>
           @@ "write" :> <<"WriteStmt">>
           @@ "begin" :> <<"begin", "StmtList", "end">>
           @@ ";" :> <<"epsilon">>
           @@ "end" :> <<"epsilon">>
           @@ "else" :> <<"epsilon">>)
    @@ "IfStmt" :> (
           "if" :> <<"if", "BoolExpr", "then", "Statement", "ElsePart">>)
    @@ "ElsePart" :> (
           "else" :> <<"else", "Statement">>
           @@ ";" :> <<"epsilon">>
           @@ "end" :> <<"epsilon">>)
    @@ "WhileStmt" :> (
           "while" :> <<"while", "BoolExpr", "do", "Statement">>)
    @@ "ReadStmt" :> (
           "read" :> <<"read", "(", "IdList", ")">>)
    @@ "WriteStmt" :> (
           "write" :> <<"write", "(", "ExprList", ")">>)
    @@ "ExprList" :> (
           "(" :> <<"Expression", "ExprListP">>
           @@ "id" :> <<"Expression", "ExprListP">>
           @@ "num" :> <<"Expression", "ExprListP">>
           @@ "+" :> <<"Expression", "ExprListP">>
           @@ "-" :> <<"Expression", "ExprListP">>)
    @@ "ExprListP" :> (
           "," :> <<",", "Expression", "ExprListP">>
           @@ ")" :> <<"epsilon">>)
    @@ "BoolExpr" :> (
           "(" :> <<"Expression", "RelOp", "Expression">>
           @@ "id" :> <<"Expression", "RelOp", "Expression">>
           @@ "num" :> <<"Expression", "RelOp", "Expression">>
           @@ "+" :> <<"Expression", "RelOp", "Expression">>
           @@ "-" :> <<"Expression", "RelOp", "Expression">>)
    @@ "RelOp" :> (
           "<" :> <<"<">>
           @@ ">" :> <<">">>
           @@ "<=" :> <<"<=">>
           @@ ">=" :> <<">=">>
           @@ "=" :> <<"=">>
           @@ "<>" :> <<"<>">>)
    @@ "Expression" :> (
           "(" :> <<"Term", "ExpressionP">>
           @@ "id" :> <<"Term", "ExpressionP">>
           @@ "num" :> <<"Term", "ExpressionP">>
           @@ "+" :> <<"Term", "ExpressionP">>
           @@ "-" :> <<"Term", "ExpressionP">>)
    @@ "ExpressionP" :> (
           "+" :> <<"+", "Term", "ExpressionP">>
           @@ "-" :> <<"-", "Term", "ExpressionP">>
           @@ ")" :> <<"epsilon">>
           @@ ";" :> <<"epsilon">>
           @@ "," :> <<"epsilon">>
           @@ "then" :> <<"epsilon">>
           @@ "do" :> <<"epsilon">>
           @@ "end" :> <<"epsilon">>
           @@ "else" :> <<"epsilon">>
           @@ "<" :> <<"epsilon">>
           @@ ">" :> <<"epsilon">>
           @@ "<=" :> <<"epsilon">>
           @@ ">=" :> <<"epsilon">>
           @@ "=" :> <<"epsilon">>
           @@ "<>" :> <<"epsilon">>)
    @@ "Term" :> (
           "(" :> <<"Factor", "TermP">>
           @@ "id" :> <<"Factor", "TermP">>
           @@ "num" :> <<"Factor", "TermP">>
           @@ "+" :> <<"Factor", "TermP">>
           @@ "-" :> <<"Factor", "TermP">>)
    @@ "TermP" :> (
           "*" :> <<"*", "Factor", "TermP">>
           @@ "/" :> <<"/", "Factor", "TermP">>
           @@ "div" :> <<"div", "Factor", "TermP">>
           @@ "mod" :> <<"mod", "Factor", "TermP">>
           @@ "+" :> <<"epsilon">>
           @@ "-" :> <<"epsilon">>
           @@ ")" :> <<"epsilon">>
           @@ ";" :> <<"epsilon">>
           @@ "," :> <<"epsilon">>
           @@ "then" :> <<"epsilon">>
           @@ "do" :> <<"epsilon">>
           @@ "end" :> <<"epsilon">>
           @@ "else" :> <<"epsilon">>
           @@ "<" :> <<"epsilon">>
           @@ ">" :> <<"epsilon">>
           @@ "<=" :> <<"epsilon">>
           @@ ">=" :> <<"epsilon">>
           @@ "=" :> <<"epsilon">>
           @@ "<>" :> <<"epsilon">>)
    @@ "Factor" :> (
           "(" :> <<"(", "Expression", ")">>
           @@ "id" :> <<"id">>
           @@ "num" :> <<"num">>
           @@ "+" :> <<"+", "Factor">>
           @@ "-" :> <<"-", "Factor">>)

TOKEN_TO_TERMINAL ==
    "PROGRAM" :> "program"
    @@ "VAR" :> "var"
    @@ "BEGIN" :> "begin"
    @@ "END" :> "end"
    @@ "INTEGER" :> "integer"
    @@ "REAL" :> "real"
    @@ "BOOLEAN" :> "boolean"
    @@ "IF" :> "if"
    @@ "THEN" :> "then"
    @@ "ELSE" :> "else"
    @@ "WHILE" :> "while"
    @@ "DO" :> "do"
    @@ "READ" :> "read"
    @@ "WRITE" :> "write"
    @@ "DIV" :> "div"
    @@ "MOD" :> "mod"
    @@ "ID" :> "id"
    @@ "NUM" :> "num"
    @@ "PLUS" :> "+"
    @@ "MINUS" :> "-"
    @@ "MULTIPLY" :> "*"
    @@ "DIVIDE" :> "/"
    @@ "ASSIGN" :> ":="
    @@ "EQUAL" :> "="
    @@ "NOT_EQUAL" :> "<>"
    @@ "LESS" :> "<"
    @@ "GREATER" :> ">"
    @@ "LESS_EQUAL" :> "<="
    @@ "GREATER_EQUAL" :> ">="
    @@ "LPAREN" :> "("
    @@ "RPAREN" :> ")"
    @@ "SEMICOLON" :> ";"
    @@ "COLON" :> ":"
    @@ "COMMA" :> ","
    @@ "DOT" :> "."
    @@ "EOF" :> "$"

Range(s) == {s[i] : i \in DOMAIN s}

\* grammar.py is_terminal
is_terminal(symbol) == symbol \in Range(TERMINALS) \/ symbol = EPSILON

\* grammar.py is_nonterminal
is_nonterminal(symbol) == symbol \in Range(NONTERMINALS)

\* Python's None, for a production and for a tree-node reference.
NoProduction == <<>>
NoNode == 0

\* The module-level dictionary PARSE_TABLE as it currently is: Python
\* dictionaries and lists are mutable and get_production hands out the very
\* lists stored in it, so its content is part of the state.
VARIABLE table

\* a lookup that falls back on some production of the row
get_production_or_default(nonterminal, terminal) ==
    IF nonterminal \in DOMAIN table
    THEN IF terminal \in DOMAIN table[nonterminal]
         THEN table[nonterminal][terminal]
         ELSE table[nonterminal][CHOOSE t \in DOMAIN table[nonterminal] : TRUE]
    ELSE NoProduction

\* a lookup that finds the row and ignores the terminal within it
get_production_ignoring_terminal(nonterminal, terminal) ==
    IF nonterminal \in DOMAIN table
    THEN IF terminal \in DOMAIN table[nonterminal]
         THEN table[nonterminal][CHOOSE t \in DOMAIN table[nonterminal] : TRUE]
         ELSE NoProduction
    ELSE NoProduction

\* grammar.py get_production: the table cell, or None
get_production(nonterminal, terminal) ==
    IF nonterminal \in DOMAIN table
    THEN IF terminal \in DOMAIN table[nonterminal]
         THEN table[nonterminal][terminal]
         ELSE NoProduction
    ELSE NoProduction

(***************************************************************************)
(* The language of PRODUCTIONS, computed from the productions alone (never *)
(* from PARSE_TABLE): nullable nonterminals, the terminal strings of a     *)
(* bounded length derivable from a sentential form, and a recogniser.      *)
(***************************************************************************)
RECURSIVE NullableFrom(_)
NullableFrom(S) ==
    LET S2 == S \cup {A \in DOMAIN PRODUCTIONS :
                        \E k \in DOMAIN PRODUCTIONS[A] :
                            \A x \in Range(PRODUCTIONS[A][k]) :
                                x = EPSILON \/ x \in S}
    IN  IF S2 = S THEN S ELSE NullableFrom(S2)

Nullable == NullableFrom({})

\* a lower bound on the number of terminals a sentential form derives
RECURSIVE FormWeight(_)
FormWeight(form) ==
    IF form = <<>> THEN 0
    ELSE (IF Head(form) = EPSILON \/ Head(form) \in Nullable THEN 0 ELSE 1)
         + FormWeight(Tail(form))

\* the sentential forms reached from those of S by leftmost expansions,
\* each starting with a terminal (or empty), that can still derive a string
\* of at most `room` terminals
RECURSIVE LeftmostClosure(_, _)
LeftmostClosure(S, room) ==
    LET fit  == {f \in S : FormWeight(f) <= room}
        open == {f \in fit : f # <<>> /\ (Head(f) = EPSILON
                                          \/ Head(f) \in DOMAIN PRODUCTIONS)}
        next == UNION {IF Head(f) = EPSILON THEN {Tail(f)}
                       ELSE {PRODUCTIONS[Head(f)][k] \o Tail(f) :
                               k \in DOMAIN PRODUCTIONS[Head(f)]} : f \in open}
    IN  IF open = {} THEN fit
        ELSE (fit \ open) \cup LeftmostClosure(next, room)

\* the terminal strings of at most `budget` symbols derivable from the
\* items of S, an item being <<terminals derived so far, rest of the form>>
RECURSIVE Sentences(_, _)
Sentences(S, budget) ==
    LET closed   == UNION {{<<p[1], f>> :
                              f \in LeftmostClosure({p[2]}, budget - Len(p[1]))} :
                           p \in S}
        finished == {p[1] : p \in {q \in closed : q[2] = <<>>}}
        shifted  == {<<Append(p[1], Head(p[2])), Tail(p[2])>> :
                       p \in {q \in closed : q[2] # <<>>}}
    IN  IF S = {} THEN {} ELSE finished \cup Sentences(shifted, budget)

Lang(form, budget) == Sentences({<<<<>>, form>>}, budget)

\* the forms left of those of S once the terminal w[i] is read
Shift(S, w, i) ==
    {Tail(f) : f \in {g \in LeftmostClosure(S, Len(w) + 1 - i) :
                        g # <<>> /\ Head(g) = w[i]}}

\* the forms left of those of S once w[i..j] is read (halving the range)
RECURSIVE ShiftRange(_, _, _, _)
ShiftRange(S, w, i, j) ==
    IF S = {} \/ i > j THEN S
    ELSE IF i = j THEN Shift(S, w, i)
    ELSE ShiftRange(ShiftRange(S, w, i, (i + j) \div 2), w, (i + j) \div 2 + 1, j)

\* is the terminal string w derivable from Program by PRODUCTIONS
Derivable(w) ==
    <<>> \in LeftmostClosure(ShiftRange({<<"Program">>}, w, 1, Len(w)), 0)

(***************************************************************************)
(* The FIRST and FOLLOW sets the grammar module declares.                  *)
(***************************************************************************)
\* the declared FIRST sets, EPSILON marking a nonterminal as nullable
FIRST ==
    "Program" :> {"program"}
    @@ "Block" :> {"var", "begin"}
    @@ "Declarations" :> {"var", EPSILON}
    @@ "DeclList" :> {"id"}
    @@ "DeclListP" :> {"id", EPSILON}
    @@ "Decl" :> {"id"}
    @@ "IdList" :> {"id"}
    @@ "IdListP" :> {",", EPSILON}
    @@ "Type" :> {"integer", "real", "boolean"}
    @@ "StmtList" :> {"id", "begin", "if", "while", "read", "write", EPSILON}
    @@ "StmtListP" :> {";", EPSILON}
    @@ "Statement" :> {"id", "begin", "if", "while", "read", "write", EPSILON}
    @@ "AssignStmt" :> {"id"}
    @@ "IfStmt" :> {"if"}
    @@ "ElsePart" :> {"else", EPSILON}
    @@ "WhileStmt" :> {"while"}
    @@ "ReadStmt" :> {"read"}
    @@ "WriteStmt" :> {"write"}
    @@ "ExprList" :> {"id", "(", "+", "-", "num"}
    @@ "ExprListP" :> {",", EPSILON}
    @@ "BoolExpr" :> {"id", "(", "+", "-", "num"}
    @@ "RelOp" :> {"<", ">", "<=", ">=", "=", "<>"}
    @@ "Expression" :> {"id", "(", "+", "-", "num"}
    @@ "ExpressionP" :> {"+", "-", EPSILON}
    @@ "Term" :> {"id", "(", "+", "-", "num"}
    @@ "TermP" :> {"*", "/", "div", "mod", EPSILON}
    @@ "Factor" :> {"id", "(", "+", "-", "num"}

\* the declared FOLLOW sets, "$" the end marker
FOLLOW ==
    "Program" :> {"$"}
    @@ "Block" :> {"."}
    @@ "Declarations" :> {"begin"}
    @@ "DeclList" :> {"begin"}
    @@ "DeclListP" :> {"begin"}
    @@ "Decl" :> {"id", "begin"}
    @@ "IdList" :> {":", ")"}
    @@ "IdListP" :> {":", ")"}
    @@ "Type" :> {";"}
    @@ "StmtList" :> {"end"}
    @@ "StmtListP" :> {"end"}
    @@ "Statement" :> {";", "end", "else"}
    @@ "AssignStmt" :> {";", "end", "else"}
    @@ "IfStmt" :> {";", "end", "else"}
    @@ "ElsePart" :> {";", "end", "else"}
    @@ "WhileStmt" :> {";", "end", "else"}
    @@ "ReadStmt" :> {";", "end", "else"}
    @@ "WriteStmt" :> {";", "end", "else"}
    @@ "ExprList" :> {")"}
    @@ "ExprListP" :> {")"}
    @@ "BoolExpr" :> {"then", "do"}
    @@ "RelOp" :> {"id", "(", "+", "-", "num"}
    @@ "Expression" :> {";", ",", "then", "do", ")", "<", ">", "<=", ">=",
           "=", "<>"}
    @@ "ExpressionP" :> {";", ",", "then", "do", ")", "<", ">", "<=", ">=",
           "=", "<>"}
    @@ "Term" :> {";", ",", "then", "do", ")", "+", "-", "<", ">", "<=",
           ">=", "=", "<>"}
    @@ "TermP" :> {";", ",", "then", "do", ")", "+", "-", "<", ">", "<=",
           ">=", "=", "<>"}
    @@ "Factor" :> {";", ",", "then", "do", ")", "+", "-", "*", "/", "div",
           "mod", "<", ">", "<=", ">=", "=", "<>"}

(***************************************************************************)
(* FIRST and FOLLOW computed from PRODUCTIONS by the standard fixed        *)
(* points, and the lookaheads under which an alternative is selectable.    *)
(***************************************************************************)
\* can every symbol of the form derive the empty string
NullableForm(form) ==
    \A x \in Range(form) : x = EPSILON \/ x \in Nullable

\* the terminals that can begin a string derived from the form, F holding
\* the FIRST sets of the nonterminals found so far
RECURSIVE FirstOfForm(_, _)
FirstOfForm(F, form) ==
    IF form = <<>> THEN {}
    ELSE IF Head(form) = EPSILON THEN FirstOfForm(F, Tail(form))
    ELSE IF Head(form) \in DOMAIN PRODUCTIONS
         THEN F[Head(form)] \cup (IF Head(form) \in Nullable
                                  THEN FirstOfForm(F, Tail(form)) ELSE {})
    ELSE {Head(form)}

RECURSIVE FirstFrom(_)
FirstFrom(F) ==
    LET F2 == [A \in DOMAIN PRODUCTIONS |->
                  F[A] \cup UNION {FirstOfForm(F, PRODUCTIONS[A][k]) :
                                     k \in DOMAIN PRODUCTIONS[A]}]
    IN  IF F2 = F THEN F ELSE FirstFrom(F2)

\* FIRST of every nonterminal (epsilon left out: see Nullable)
ComputedFirst == FirstFrom([A \in DOMAIN PRODUCTIONS |-> {}])

\* what the occurrences of X in the alternatives of A add to FOLLOW(X)
FollowContribution(W, A, X) ==
    UNION {UNION {IF PRODUCTIONS[A][k][i] = X
                  THEN LET rest == SubSeq(PRODUCTIONS[A][k], i + 1,
                                          Len(PRODUCTIONS[A][k]))
                       IN  FirstOfForm(ComputedFirst, rest)
                           \cup (IF NullableForm(rest) THEN W[A] ELSE {})
                  ELSE {} : i \in DOMAIN PRODUCTIONS[A][k]} :
           k \in DOMAIN PRODUCTIONS[A]}

RECURSIVE FollowFrom(_)
FollowFrom(W) ==
    LET W2 == [X \in DOMAIN PRODUCTIONS |->
                  W[X] \cup UNION {FollowContribution(W, A, X) :
                                     A \in DOMAIN PRODUCTIONS}]
    IN  IF W2 = W THEN W ELSE FollowFrom(W2)

\* FOLLOW of every nonterminal, the end marker following Program
ComputedFollow ==
    FollowFrom([X \in DOMAIN PRODUCTIONS |->
                   IF X = "Program" THEN {"$"} ELSE {}])

\* the lookaheads under which the alternative alpha of A is selectable
Selectable(A, alpha) ==
    FirstOfForm(ComputedFirst, alpha)
        \cup (IF NullableForm(alpha) THEN ComputedFollow[A] ELSE {})

\* Selectable for every alternative of every nonterminal
SelectSets ==
    [A \in DOMAIN PRODUCTIONS |->
        [k \in DOMAIN PRODUCTIONS[A] |-> Selectable(A, PRODUCTIONS[A][k])]]

\* the nonterminals that occur in a sentential form derived from Program
RECURSIVE ReachableFrom(_)
ReachableFrom(S) ==
    LET S2 == S \cup {X \in DOMAIN PRODUCTIONS :
                        \E A \in S : \E k \in DOMAIN PRODUCTIONS[A] :
                            X \in Range(PRODUCTIONS[A][k])}
    IN  IF S2 = S THEN S ELSE ReachableFrom(S2)

Reachable == ReachableFrom({"Program"})

(***************************************************************************)
(* Inputs: the token sequences the lexer hands to the parser.              *)
(***************************************************************************)
\* longest program (in tokens before EOF) enumerated exhaustively
MaxTokens == 11

\* longer programs, one per construct of the language
ScenarioPrograms ==
    { <<"program", "id", ";", "var", "id", ":", "integer", ";",
        "begin", "id", ":=", "num", "end", ".">>,
      <<"program", "id", ";", "begin", "if", "id", "<", "num", "then",
        "id", ":=", "num", "else", "id", ":=", "id", "end", ".">>,
      <<"program", "id", ";", "begin", "if", "id", "=", "id", "then",
        "if", "id", "<>", "id", "then", "else", "id", ":=", "num",
        "end", ".">>,
      <<"program", "id", ";", "var", "id", ",", "id", ":", "real", ";",
        "id", ":", "boolean", ";", "begin", "end", ".">>,
      <<"program", "id", ";", "begin", "while", "id", ">=", "num", "do",
        "read", "(", "id", ",", "id", ")", "end", ".">>,
      <<"program", "id", ";", "begin", "write", "(", "id", "*", "(", "id",
        "-", "num", ")", ",", "-", "id", "div", "num", ")", "end", ".">> }

ValidPrograms ==
    Lang(<<"Program">>, MaxTokens) \cup {w \in ScenarioPrograms : Derivable(w)}

\* `program t; begin x := end.`
MissingRhs ==
    <<"program", "id", ";", "begin", "id", ":=", "end", ".">>

Front(s) == SubSeq(s, 1, Len(s) - 1)

Without(s, i) == SubSeq(s, 1, i - 1) \o SubSeq(s, i + 1, Len(s))

\* a valid program without its final `.`, and without its final `end .`
DropDot == {Front(w) : w \in ValidPrograms}
DropEndDot == {Front(Front(w)) : w \in ValidPrograms}

\* a valid program followed by one more token
ExtraTokens == {".", "id"}
WithExtra == {w \o <<t>> : w \in ValidPrograms, t \in ExtraTokens}

\* a shorter valid program with one token left out
OneDeleted ==
    UNION {{Without(w, i) : i \in 1..Len(w)} :
             w \in Lang(<<"Program">>, MaxTokens - 2)}

\* two short valid programs, one after the other
TwoPrograms ==
    {v \o w : v, w \in Lang(<<"Program">>, MaxTokens - 4)}

InputTerms ==
    ValidPrograms \cup DropDot \cup DropEndDot \cup WithExtra \cup OneDeleted
        \cup TwoPrograms \cup {MissingRhs}

\* lexemes: identifier and number spellings by occurrence, keywords in the
\* casing of the source (the lexer keeps it), operators as written
IdNames == <<"t", "x", "y">>
NumLexemes == <<"5", "3.14">>
Casings == {"lower", "upper"}

KeywordUpper ==
    "program" :> "PROGRAM" @@ "var" :> "VAR" @@ "begin" :> "BEGIN"
    @@ "end" :> "END" @@ "integer" :> "INTEGER" @@ "real" :> "REAL"
    @@ "boolean" :> "BOOLEAN" @@ "if" :> "IF" @@ "then" :> "THEN"
    @@ "else" :> "ELSE" @@ "while" :> "WHILE" @@ "do" :> "DO"
    @@ "read" :> "READ" @@ "write" :> "WRITE" @@ "div" :> "DIV"
    @@ "mod" :> "MOD"

Occ(w, i) == Cardinality({j \in 1..i : w[j] = w[i]})

Lexeme(w, i, casing) ==
    IF w[i] = "id" THEN IdNames[((Occ(w, i) - 1) % Len(IdNames)) + 1]
    ELSE IF w[i] = "num" THEN NumLexemes[((Occ(w, i) - 1) % Len(NumLexemes)) + 1]
    ELSE IF casing = "upper" /\ w[i] \in DOMAIN KeywordUpper THEN KeywordUpper[w[i]]
    ELSE w[i]

TokenTypeOf(terminal) ==
    CHOOSE ty \in DOMAIN TOKEN_TO_TERMINAL : TOKEN_TO_TERMINAL[ty] = terminal

\* the width of the lexemes of w[i..j], each followed by one blank
RECURSIVE Width(_, _, _, _)
Width(w, i, j, casing) ==
    IF i > j THEN 0
    ELSE IF i = j THEN Len(Lexeme(w, i, casing)) + 1
    ELSE Width(w, i, (i + j) \div 2, casing)
         + Width(w, (i + j) \div 2 + 1, j, casing)

\* lexemes separated by one blank on line 1
Column(w, i, casing) == 1 + Width(w, 1, i - 1, casing)

\* lexer.py Token
Token(type, value, line, column) ==
    [type |-> type, value |-> value, line |-> line, column |-> column]

\* what tokenize returns for the lexemes of w written on one line with one
\* blank between them: a token per lexeme, then the EOF token at the column
\* just past the last character
MakeTokens(w, casing) ==
    [i \in 1..(Len(w) + 1) |->
        IF i <= Len(w)
        THEN Token(TokenTypeOf(w[i]), Lexeme(w, i, casing), 1, Column(w, i, casing))
        ELSE Token("EOF", "$", 1, Column(w, i, casing) - 1)]

Inputs == {MakeTokens(w, casing) : w \in InputTerms, casing \in Casings}

(***************************************************************************)
(* The lexer (lexer.py).  The source text is a string and a character is a *)
(* string of length one; the end of the text is read as the empty string.  *)
(***************************************************************************)
VARIABLES
    source,        \* Lexer.source
    lexer_pos,     \* Lexer.pos (0-based)
    lexer_line,    \* Lexer.line
    lexer_column,  \* Lexer.column
    lexer_tokens,  \* Lexer.tokens
    lexer_pc,      \* "idle", "scanning", "returned", "raised" (LexerError)
    lexer_error,   \* the LexerError raised: message parts, line and column
    lexer_returned \* the list an earlier call of tokenize returned

lexvars ==
    <<source, lexer_pos, lexer_line, lexer_column, lexer_tokens, lexer_pc,
      lexer_error, lexer_returned>>

\* the characters of a string
CharsOf(str) == {SubSeq(str, i, i) : i \in 1..Len(str)}

LowerLetters == "abcdefghijklmnopqrstuvwxyz"
UpperLetters == "ABCDEFGHIJKLMNOPQRSTUVWXYZ"
AsciiLetters == CharsOf(LowerLetters) \cup CharsOf(UpperLetters)
AsciiDigits == CharsOf("0123456789")
WhiteSpace == {" ", "\t", "\n", "\r"}

\* Two characters outside ASCII.  A string of this notation holds ASCII
\* only, so each is written as an ASCII character that no source uses for
\* itself: "@" is U+00E9 (e with acute accent, a letter: str.isalpha is
\* true of it) and "~" is U+0663 (Arabic-Indic digit three: str.isdigit is
\* true of it).  Neither has another case.
LatinSmallEAcute == "@"
ArabicIndicDigitThree == "~"
OtherLetters == {LatinSmallEAcute}
OtherDigits == {ArabicIndicDigitThree}

\* Python's str.isspace, isdigit, isalpha and isalnum on one character of
\* the alphabet above: the str methods follow the Unicode categories
isspace(c) == c \in WhiteSpace
isdigit(c) == c \in AsciiDigits \cup OtherDigits
isalpha(c) == c \in AsciiLetters \cup OtherLetters
isalnum(c) == isalpha(c) \/ isdigit(c)

\* Python's str.lower, character by character
lower_char(c) ==
    IF c \in CharsOf(UpperLetters)
    THEN LET i == CHOOSE j \in 1..Len(UpperLetters) : SubSeq(UpperLetters, j, j) = c
         IN  SubSeq(LowerLetters, i, i)
    ELSE c

RECURSIVE lower(_)
lower(str) ==
    IF str = "" THEN ""
    ELSE lower_char(SubSeq(str, 1, 1)) \o lower(SubSeq(str, 2, Len(str)))

\* Lexer.KEYWORDS
KEYWORDS ==
    "program" :> "PROGRAM" @@ "var" :> "VAR" @@ "begin" :> "BEGIN"
    @@ "end" :> "END" @@ "integer" :> "INTEGER" @@ "real" :> "REAL"
    @@ "boolean" :> "BOOLEAN" @@ "if" :> "IF" @@ "then" :> "THEN"
    @@ "else" :> "ELSE" @@ "while" :> "WHILE" @@ "do" :> "DO"
    @@ "read" :> "READ" @@ "write" :> "WRITE" @@ "div" :> "DIV"
    @@ "mod" :> "MOD"

\* the two-character operators without `<>`
TwoCharTokensWithoutNotEqual ==
    ":=" :> "ASSIGN" @@ "<=" :> "LESS_EQUAL" @@ ">=" :> "GREATER_EQUAL"

\* tokenize's two-character operators (lines 215-238) and single-character
\* tokens (lines 240-280)
TwoCharTokens ==
    ":=" :> "ASSIGN" @@ "<=" :> "LESS_EQUAL" @@ ">=" :> "GREATER_EQUAL"
    @@ "<>" :> "NOT_EQUAL"

\* single-character tokens with a token for `}` as well
OneCharTokensWithClosingBrace ==
    "+" :> "PLUS" @@ "-" :> "MINUS" @@ "*" :> "MULTIPLY" @@ "/" :> "DIVIDE"
    @@ "=" :> "EQUAL" @@ "<" :> "LESS" @@ ">" :> "GREATER"
    @@ "(" :> "LPAREN" @@ ")" :> "RPAREN" @@ ";" :> "SEMICOLON"
    @@ ":" :> "COLON" @@ "," :> "COMMA" @@ "." :> "DOT" @@ "}" :> "RBRACE"

OneCharTokens ==
    "+" :> "PLUS" @@ "-" :> "MINUS" @@ "*" :> "MULTIPLY" @@ "/" :> "DIVIDE"
    @@ "=" :> "EQUAL" @@ "<" :> "LESS" @@ ">" :> "GREATER"
    @@ "(" :> "LPAREN" @@ ")" :> "RPAREN" @@ ";" :> "SEMICOLON"
    @@ ":" :> "COLON" @@ "," :> "COMMA" @@ "." :> "DOT"

\* Python's None for a character
NoChar == ""

\* the scan position: what advance moves
Cursor(p, l, c) == [pos |-> p, line |-> l, column |-> c]

\* Lexer.current_char and Lexer.peek at a cursor
current_char(cur) ==
    IF cur.pos >= Len(source) THEN NoChar
    ELSE SubSeq(source, cur.pos + 1, cur.pos + 1)

peek(cur) ==
    IF cur.pos + 1 >= Len(source) THEN NoChar
    ELSE SubSeq(source, cur.pos + 2, cur.pos + 2)

\* an advance that goes to the next line without resetting the column
lexer_advance_keeping_column(cur) ==
    IF current_char(cur) = "\n"
    THEN Cursor(cur.pos + 1, cur.line + 1, cur.column + 1)
    ELSE Cursor(cur.pos + 1, cur.line, cur.column + 1)

\* Lexer.advance
lexer_advance(cur) ==
    IF current_char(cur) = "\n"
    THEN Cursor(cur.pos + 1, cur.line + 1, 1)
    ELSE Cursor(cur.pos + 1, cur.line, cur.column + 1)

\* the characters advance returned between two cursors
Consumed(from, to) == SubSeq(source, from.pos + 1, to.pos)

\* a skip_whitespace that leaves the scanner where it is
skip_whitespace_standing_still(cur) == cur

\* Lexer.skip_whitespace
RECURSIVE skip_whitespace(_)
skip_whitespace(cur) ==
    IF current_char(cur) # NoChar /\ isspace(current_char(cur))
    THEN skip_whitespace(lexer_advance(cur))
    ELSE cur

\* a loop that goes up to the last closing brace of the source
RECURSIVE SkipToLastBrace(_)
SkipToLastBrace(cur) ==
    IF current_char(cur) = NoChar THEN cur
    ELSE IF current_char(cur) = "}"
            /\ \A q \in (cur.pos + 2)..Len(source) : SubSeq(source, q, q) # "}"
         THEN cur
    ELSE SkipToLastBrace(lexer_advance(cur))

\* skip_comment's loops: up to a closing brace, and past a closing `*)`
RECURSIVE SkipToBrace(_)
SkipToBrace(cur) ==
    IF current_char(cur) # NoChar /\ current_char(cur) # "}"
    THEN SkipToBrace(lexer_advance(cur))
    ELSE cur

RECURSIVE SkipPastStarParen(_)
SkipPastStarParen(cur) ==
    IF current_char(cur) = NoChar THEN cur
    ELSE IF current_char(cur) = "*" /\ peek(cur) = ")"
         THEN lexer_advance(lexer_advance(cur))
    ELSE SkipPastStarParen(lexer_advance(cur))

\* a skip_comment that stops at the closing brace without passing it
skip_comment_leaving_brace(cur) ==
    IF current_char(cur) = "{"
    THEN SkipToBrace(lexer_advance(cur))
    ELSE IF current_char(cur) = "(" /\ peek(cur) = "*"
         THEN SkipPastStarParen(lexer_advance(lexer_advance(cur)))
    ELSE cur

\* Lexer.skip_comment
skip_comment(cur) ==
    IF current_char(cur) = "{"
    THEN LET at == SkipToBrace(lexer_advance(cur))
         IN  IF current_char(at) = "}" THEN lexer_advance(at) ELSE at
    ELSE IF current_char(cur) = "(" /\ peek(cur) = "*"
         THEN SkipPastStarParen(lexer_advance(lexer_advance(cur)))
    ELSE cur

\* the loops `while current_char is a digit` and `... is alphanumeric or _`
RECURSIVE ReadDigits(_)
ReadDigits(cur) ==
    IF current_char(cur) # NoChar /\ isdigit(current_char(cur))
    THEN ReadDigits(lexer_advance(cur))
    ELSE cur

RECURSIVE ReadWord(_)
ReadWord(cur) ==
    IF current_char(cur) # NoChar
       /\ (isalnum(current_char(cur)) \/ current_char(cur) = "_")
    THEN ReadWord(lexer_advance(cur))
    ELSE cur

\* a read_number that takes a `.` after the digits whatever follows it
read_number_taking_dot(cur) ==
    LET whole == ReadDigits(cur)
        after == IF current_char(whole) = "."
                 THEN ReadDigits(lexer_advance(whole))
                 ELSE whole
    IN  [token  |-> Token("NUM", Consumed(cur, after), cur.line, cur.column),
         cursor |-> after]

\* Lexer.read_number: the token and the cursor after it
read_number(cur) ==
    LET whole == ReadDigits(cur)
        after == IF current_char(whole) = "." /\ peek(whole) # NoChar
                    /\ isdigit(peek(whole))
                 THEN ReadDigits(lexer_advance(whole))
                 ELSE whole
    IN  [token  |-> Token("NUM", Consumed(cur, after), cur.line, cur.column),
         cursor |-> after]

\* a read_identifier that compares the lexeme as written with the keywords
read_identifier_case_sensitive(cur) ==
    LET after  == ReadWord(cur)
        result == Consumed(cur, after)
    IN  [token  |-> IF result \in DOMAIN KEYWORDS
                    THEN Token(KEYWORDS[result], result, cur.line, cur.column)
                    ELSE Token("ID", result, cur.line, cur.column),
         cursor |-> after]

\* a read_identifier that stores the lowered lexeme in a keyword token
read_identifier_lowering(cur) ==
    LET after  == ReadWord(cur)
        result == Consumed(cur, after)
        lower_result == lower(result)
    IN  [token  |-> IF lower_result \in DOMAIN KEYWORDS
                    THEN Token(KEYWORDS[lower_result], lower_result,
                               cur.line, cur.column)
                    ELSE Token("ID", result, cur.line, cur.column),
         cursor |-> after]

\* Lexer.read_identifier: the token and the cursor after it
read_identifier(cur) ==
    LET after  == ReadWord(cur)
        result == Consumed(cur, after)
        lower_result == lower(result)
    IN  [token  |-> IF lower_result \in DOMAIN KEYWORDS
                    THEN Token(KEYWORDS[lower_result], result,
                               cur.line, cur.column)
                    ELSE Token("ID", result, cur.line, cur.column),
         cursor |-> after]

\* lexer.py LexerError
LexerError(message, l, c) == [message |-> message, line |-> l, column |-> c]

NoLexerError == LexerError(<<>>, 0, 0)

(***************************************************************************)
(* Parser state (LL1Parser) and the tree under construction.               *)
(***************************************************************************)
VARIABLES
    tokens,   \* self.tokens
    pos,      \* self.pos (0-based)
    stack,    \* self.stack: pairs <<symbol, node reference>>, top last
    nodes,    \* the ParseTreeNode objects created so far; a reference is an index
    tree,     \* the ParseTree's root reference
    step,     \* parse's step counter
    pc,       \* "init", "running", "accepted" (returned True, tree), "raised"
    error,    \* the ParserError raised: message parts and token
    recorded, \* what an earlier, completed call of parse gave its caller
    other     \* a second LL1Parser object: its own fields while it waits

vars ==
    <<tokens, pos, stack, nodes, tree, step, pc, error, table, recorded,
      other>>

NoToken == Token("None", "", 0, 0)
NoError == [message |-> <<>>, token |-> NoToken]

\* parser.py ParserError
ParserError(message, token) == [message |-> message, token |-> token]

\* no call of parse has completed yet
NoOutcome == [pc |-> "none", error |-> NoError, shape |-> <<>>]

\* the fields of an LL1Parser object (lines 24-27), with what its call of
\* parse holds in local variables (tree, step) and where that call is
ParserObject(name, toks, p, stk, root, n, at, err) ==
    [name |-> name, tokens |-> toks, pos |-> p, stack |-> stk, tree |-> root,
     step |-> n, pc |-> at, error |-> err]

\* there is no second parser
NoOther == ParserObject("none", <<>>, 0, <<>>, NoNode, 0, "unbuilt", NoError)

\* parse_tree.py ParseTreeNode(symbol)
ParseTreeNode(symbol) == [symbol |-> symbol, value |-> "", children |-> <<>>]

\* an add_child that appends the child twice
add_child_twice(store, parent, child) ==
    [store EXCEPT ![parent].children = Append(Append(@, child), child)]

\* parse_tree.py ParseTreeNode.add_child, on the node store
add_child(store, parent, child) ==
    [store EXCEPT ![parent].children = Append(@, child)]

\* parser.py current_token
current_token ==
    IF pos < Len(tokens) THEN tokens[pos + 1] ELSE tokens[Len(tokens)]

\* parser.py get_terminal
get_terminal(token) ==
    IF token.type \in DOMAIN TOKEN_TO_TERMINAL
    THEN TOKEN_TO_TERMINAL[token.type]
    ELSE token.value

\* parser.py advance
advance == IF pos < Len(tokens) - 1 THEN pos + 1 ELSE pos

Init ==
    /\ tokens \in Inputs
    /\ pos = 0
    /\ stack = <<>>
    /\ nodes = <<>>
    /\ tree = NoNode
    /\ step = 0
    /\ pc = "init"
    /\ error = NoError
    /\ table = PARSE_TABLE
    /\ recorded = NoOutcome
    /\ other = NoOther
    /\ source = ""
    /\ lexer_pos = 0
    /\ lexer_line = 1
    /\ lexer_column = 1
    /\ lexer_tokens = <<>>
    /\ lexer_pc = "idle"
    /\ lexer_error = NoLexerError
    /\ lexer_returned = <<>>

\* parse, lines 40-49: the root node, the tree, the initial stack and the
\* step counter; self.pos is left as it is
EnterParse ==
    /\ nodes' = Append(nodes, ParseTreeNode("Program"))
    /\ tree' = Len(nodes) + 1
    /\ stack' = <<<<"$", NoNode>>, <<"Program", Len(nodes) + 1>>>>
    /\ step' = 0
    /\ pc' = "running"
    /\ UNCHANGED <<tokens, pos, error, table>>
    /\ UNCHANGED lexvars

\* the first call of parse on a parser
ParseEntry ==
    /\ pc = "init"
    /\ EnterParse
    /\ UNCHANGED <<recorded, other>>

\* what one loop iteration reads after the pop (lines 52-54)
top_symbol == stack[Len(stack)][1]
top_node == stack[Len(stack)][2]
popped == SubSeq(stack, 1, Len(stack) - 1)
current == current_token
current_terminal == get_terminal(current)
production == get_production(top_symbol, current_terminal)

\* line 61
accept_on_end_marker == top_symbol = "$"

accept_condition == top_symbol = "$" /\ current_terminal = "$"

AcceptWithoutReturn ==
    /\ stack' = popped
    /\ UNCHANGED <<pos, nodes, pc, tree, error>>
    /\ UNCHANGED <<tokens, table>>

\* lines 62-63
Accept ==
    /\ pc' = "accepted"
    /\ stack' = popped
    /\ UNCHANGED <<pos, nodes, tree, error>>
    /\ UNCHANGED <<tokens, table>>

MatchStoresSymbol ==
    /\ nodes' = IF top_node # NoNode
                THEN [nodes EXCEPT ![top_node].value = top_symbol]
                ELSE nodes
    /\ pos' = advance
    /\ stack' = popped
    /\ UNCHANGED <<pc, tree, error>>
    /\ UNCHANGED <<tokens, table>>

\* lines 66-71
Match ==
    /\ nodes' = IF top_node # NoNode
                THEN [nodes EXCEPT ![top_node].value = current.value]
                ELSE nodes
    /\ pos' = advance
    /\ stack' = popped
    /\ UNCHANGED <<pc, tree, error>>
    /\ UNCHANGED <<tokens, table>>

MismatchIgnored ==
    /\ pos' = advance
    /\ stack' = popped
    /\ UNCHANGED <<nodes, pc, tree, error>>
    /\ UNCHANGED <<tokens, table>>

MismatchAfterAdvance ==
    /\ pc' = "raised"
    /\ error' = ParserError(<<"Expected", top_symbol, "but found", current.value>>,
                            current)
    /\ pos' = advance
    /\ stack' = popped
    /\ UNCHANGED <<nodes, tree>>
    /\ UNCHANGED <<tokens, table>>

\* a mismatch after which parse waits instead of raising
MismatchBlocking ==
    /\ pc' = "blocked"
    /\ stack' = popped
    /\ UNCHANGED <<pos, nodes, tree, error>>
    /\ UNCHANGED <<tokens, table>>

\* lines 72-73
Mismatch ==
    /\ pc' = "raised"
    /\ error' = ParserError(<<"Expected", top_symbol, "but found", current.value>>,
                            current)
    /\ stack' = popped
    /\ UNCHANGED <<pos, nodes, tree>>
    /\ UNCHANGED <<tokens, table>>

\* lines 75-77
PopEpsilon ==
    /\ nodes' = IF top_node # NoNode
                THEN add_child(Append(nodes, ParseTreeNode(EPSILON)),
                               top_node, Len(nodes) + 1)
                ELSE nodes
    /\ stack' = popped
    /\ UNCHANGED <<pos, pc, tree, error>>
    /\ UNCHANGED <<tokens, table>>

NoProductionErrorWithoutToken ==
    /\ pc' = "raised"
    /\ error' = ParserError(<<"No production for", top_symbol, current_terminal>>,
                            NoToken)
    /\ stack' = popped
    /\ UNCHANGED <<pos, nodes, tree>>
    /\ UNCHANGED <<tokens, table>>

\* a missing cell answered by skipping the token and going on
NoProductionErrorSkippingToken ==
    /\ pos' = advance
    /\ stack' = popped
    /\ UNCHANGED <<nodes, pc, tree, error>>
    /\ UNCHANGED <<tokens, table>>

\* lines 81-82
NoProductionError ==
    /\ pc' = "raised"
    /\ error' = ParserError(<<"No production for", top_symbol, current_terminal>>,
                            current)
    /\ stack' = popped
    /\ UNCHANGED <<pos, nodes, tree>>
    /\ UNCHANGED <<tokens, table>>

ExpandEpsilonAdvancing ==
    /\ nodes' = IF top_node # NoNode
                THEN add_child(Append(nodes, ParseTreeNode(EPSILON)),
                               top_node, Len(nodes) + 1)
                ELSE nodes
    /\ pos' = advance
    /\ stack' = popped
    /\ UNCHANGED <<pc, tree, error>>
    /\ UNCHANGED <<tokens, table>>

ExpandEpsilonNoLeaf ==
    /\ stack' = popped
    /\ UNCHANGED <<pos, nodes, pc, tree, error>>
    /\ UNCHANGED <<tokens, table>>

\* lines 87-89
ExpandEpsilon ==
    /\ nodes' = IF top_node # NoNode
                THEN add_child(Append(nodes, ParseTreeNode(EPSILON)),
                               top_node, Len(nodes) + 1)
                ELSE nodes
    /\ stack' = popped
    /\ UNCHANGED <<pos, pc, tree, error>>
    /\ UNCHANGED <<tokens, table>>

\* lines 91-96: one new node per symbol, each added to top_node in order
RECURSIVE AddChildren(_, _, _, _)
AddChildren(store, parent, symbols, i) ==
    IF i > Len(symbols) THEN store
    ELSE LET created == Append(store, ParseTreeNode(symbols[i]))
         IN  AddChildren(IF parent # NoNode
                         THEN add_child(created, parent, Len(created))
                         ELSE created,
                         parent, symbols, i + 1)

\* pairs that all hold the node of the first symbol
PushReversedOneNode(symbols, first) ==
    [j \in 1..Len(symbols) |-> <<symbols[Len(symbols) + 1 - j], first>>]

\* the pairs pushed from the first symbol to the last
PushInOrder(symbols, first) ==
    [j \in 1..Len(symbols) |-> <<symbols[j], first + j - 1>>]

\* lines 97-98: the pairs, pushed from the last symbol to the first
PushReversed(symbols, first) ==
    [j \in 1..Len(symbols) |->
        <<symbols[Len(symbols) + 1 - j], first + Len(symbols) - j>>]

\* lines 90-98
\* an expansion that pushes by reversing the production list itself
ExpandProductionReversingInPlace ==
    /\ nodes' = AddChildren(nodes, top_node, production, 1)
    /\ stack' = popped \o PushReversed(production, Len(nodes) + 1)
    /\ table' = [table EXCEPT ![top_symbol][current_terminal] =
                     [i \in DOMAIN production |->
                         production[Len(production) + 1 - i]]]
    /\ UNCHANGED <<pos, pc, tree, error>>
    /\ UNCHANGED tokens

ExpandProduction ==
    /\ nodes' = AddChildren(nodes, top_node, production, 1)
    /\ stack' = popped \o PushReversed(production, Len(nodes) + 1)
    /\ UNCHANGED <<pos, pc, tree, error>>
    /\ UNCHANGED <<tokens, table>>

\* a popped symbol that no branch handles: the loop just continues
PopOnly ==
    /\ stack' = popped
    /\ UNCHANGED <<pos, nodes, pc, tree, error>>
    /\ UNCHANGED <<tokens, table>>

\* line 100, after the loop
FallThrough ==
    /\ pc' = "raised"
    /\ error' = ParserError(<<"Unexpected end of parsing">>, NoToken)
    /\ UNCHANGED <<pos, stack, nodes, tree, step>>
    /\ UNCHANGED <<tokens, table>>

\* parse, lines 50-100: one iteration of the loop, or its exit
LoopIteration ==
    /\ pc = "running"
    /\ UNCHANGED <<recorded, other>>
    /\ UNCHANGED lexvars
    /\ IF Len(stack) > 0
       THEN /\ step' = step + 1
            /\ IF accept_condition THEN Accept
               ELSE IF is_terminal(top_symbol) /\ top_symbol # EPSILON
                    THEN IF top_symbol = current_terminal THEN Match ELSE Mismatch
               ELSE IF top_symbol = EPSILON THEN PopEpsilon
               ELSE IF is_nonterminal(top_symbol)
                    THEN IF production = NoProduction THEN NoProductionError
                         ELSE IF production = <<EPSILON>> THEN ExpandEpsilon
                         ELSE ExpandProduction
               ELSE PopOnly
       ELSE FallThrough

Next == ParseEntry \/ LoopIteration

Spec == Init /\ [][Next]_<<vars, lexvars>>

\* a call of parse runs on one thread and nothing in it waits: while an
\* iteration of the loop is possible, one is taken
TerminationSpec == Spec /\ WF_<<vars, lexvars>>(Next)

(***************************************************************************)
(* Lexer.tokenize as steps: its entry, one step per iteration of the main  *)
(* loop, and the end-of-input token appended after the loop.               *)
(***************************************************************************)
cursor == Cursor(lexer_pos, lexer_line, lexer_column)

MoveTo(cur) ==
    /\ lexer_pos' = cur.pos
    /\ lexer_line' = cur.line
    /\ lexer_column' = cur.column

\* an iteration that ends in `continue` without a token
SkipTo(cur) ==
    /\ MoveTo(cur)
    /\ UNCHANGED <<lexer_tokens, lexer_pc, lexer_error, lexer_returned>>

\* self.tokens.append(token), the scan position after the token
Emit(read) ==
    /\ lexer_tokens' = Append(lexer_tokens, read.token)
    /\ MoveTo(read.cursor)
    /\ UNCHANGED <<lexer_pc, lexer_error, lexer_returned>>

\* lines 213-235 and 238-280: the operator or punctuation token at the cursor
read_two_chars(cur) ==
    LET two == current_char(cur) \o peek(cur)
    IN  [token  |-> Token(TwoCharTokens[two], two, cur.line, cur.column),
         cursor |-> lexer_advance(lexer_advance(cur))]

read_one_char(cur) ==
    [token  |-> Token(OneCharTokens[current_char(cur)], current_char(cur),
                      cur.line, cur.column),
     cursor |-> lexer_advance(cur)]

\* an error that reports the position after the offending character
RaiseLexerErrorAfterAdvance ==
    /\ lexer_pc' = "raised"
    /\ lexer_error' = LexerError(<<"Unexpected character:", current_char(cursor)>>,
                                 lexer_advance(cursor).line,
                                 lexer_advance(cursor).column)
    /\ UNCHANGED <<lexer_pos, lexer_line, lexer_column, lexer_tokens,
                   lexer_returned>>

\* lines 281-282
RaiseLexerError ==
    /\ lexer_pc' = "raised"
    /\ lexer_error' = LexerError(<<"Unexpected character:", current_char(cursor)>>,
                                 lexer_line, lexer_column)
    /\ UNCHANGED <<lexer_pos, lexer_line, lexer_column, lexer_tokens,
                   lexer_returned>>

\* tokenize, line 189: self.tokens is a new empty list; pos, line and
\* column are left as they are
EnterTokenize ==
    /\ lexer_tokens' = <<>>
    /\ lexer_pc' = "scanning"
    /\ UNCHANGED <<source, lexer_pos, lexer_line, lexer_column, lexer_error>>
    /\ UNCHANGED vars

\* the first call of tokenize on a lexer
TokenizeEntry ==
    /\ lexer_pc = "idle"
    /\ EnterTokenize
    /\ UNCHANGED lexer_returned

\* tokenize, lines 191-282: one iteration of `while self.current_char()`
ScanIteration ==
    /\ lexer_pc = "scanning"
    /\ current_char(cursor) # NoChar
    /\ UNCHANGED <<source, lexer_returned>>
    /\ UNCHANGED vars
    /\ LET c == current_char(cursor)
       IN  IF isspace(c) THEN SkipTo(skip_whitespace(cursor))
           ELSE IF c = "{" \/ (c = "(" /\ peek(cursor) = "*")
                THEN SkipTo(skip_comment(cursor))
           ELSE IF isdigit(c) THEN Emit(read_number(cursor))
           ELSE IF isalpha(c) \/ c = "_" THEN Emit(read_identifier(cursor))
           ELSE IF (c \o peek(cursor)) \in DOMAIN TwoCharTokens
                THEN Emit(read_two_chars(cursor))
           ELSE IF c \in DOMAIN OneCharTokens THEN Emit(read_one_char(cursor))
           ELSE RaiseLexerError

\* an end-of-input token placed at the start of the text
AppendEOFAtOrigin ==
    /\ lexer_pc = "scanning"
    /\ current_char(cursor) = NoChar
    /\ lexer_tokens' = Append(lexer_tokens, Token("EOF", "$", 1, 1))
    /\ lexer_pc' = "returned"
    /\ UNCHANGED <<source, lexer_pos, lexer_line, lexer_column, lexer_error,
                   lexer_returned>>
    /\ UNCHANGED vars

\* tokenize, lines 284-287: the loop has ended
AppendEOF ==
    /\ lexer_pc = "scanning"
    /\ current_char(cursor) = NoChar
    /\ lexer_tokens' = Append(lexer_tokens,
                              Token("EOF", "$", lexer_line, lexer_column))
    /\ lexer_pc' = "returned"
    /\ UNCHANGED <<source, lexer_pos, lexer_line, lexer_column, lexer_error,
                   lexer_returned>>
    /\ UNCHANGED vars

(***************************************************************************)
(* Sources for the lexer alone: every keyword in several spellings and     *)
(* identifiers built on them, between a few neighbours.                    *)
(***************************************************************************)
upper_char(c) ==
    IF c \in CharsOf(LowerLetters)
    THEN LET i == CHOOSE j \in 1..Len(LowerLetters) : SubSeq(LowerLetters, j, j) = c
         IN  SubSeq(UpperLetters, i, i)
    ELSE c

RECURSIVE upper(_)
upper(str) ==
    IF str = "" THEN ""
    ELSE upper_char(SubSeq(str, 1, 1)) \o upper(SubSeq(str, 2, Len(str)))

\* a keyword as written, in capitals, capitalised, and with its last letter
\* alone in capitals
Spellings(w) ==
    {w, upper(w),
     upper(SubSeq(w, 1, 1)) \o SubSeq(w, 2, Len(w)),
     SubSeq(w, 1, Len(w) - 1) \o upper(SubSeq(w, Len(w), Len(w)))}

KeywordSpellings == UNION {Spellings(w) : w \in DOMAIN KEYWORDS}

\* identifiers that are not keywords: a keyword with a character more or
\* less, and a few short names
NearKeywords ==
    UNION {{s \o "1", s \o "_", "_" \o s, SubSeq(s, 1, Len(s) - 1), s \o s} :
             s \in KeywordSpellings}
        \cup {"x", "_", "X9", "a_b"}

Before == {"", " ", "x ", "\n", "5", "{if} ", ":="}
After == {"", " ", " y", ";", "(", "\nend", "#"}

Sources ==
    {b \o w \o a : b \in Before, w \in KeywordSpellings \cup NearKeywords,
                   a \in After}

\* Lexer.__init__
LexerInit(text) ==
    /\ source = text
    /\ lexer_pos = 0
    /\ lexer_line = 1
    /\ lexer_column = 1
    /\ lexer_tokens = <<>>
    /\ lexer_pc = "idle"
    /\ lexer_error = NoLexerError
    /\ lexer_returned = <<>>

\* no parser has been built yet
NoParser ==
    /\ tokens = <<>>
    /\ pos = 0
    /\ stack = <<>>
    /\ nodes = <<>>
    /\ tree = NoNode
    /\ step = 0
    /\ pc = "unbuilt"
    /\ error = NoError
    /\ table = PARSE_TABLE
    /\ recorded = NoOutcome
    /\ other = NoOther

LexInit ==
    /\ \E text \in Sources : LexerInit(text)
    /\ NoParser

LexNext == TokenizeEntry \/ ScanIteration \/ AppendEOF

LexSpec == LexInit /\ [][LexNext]_<<vars, lexvars>>

(***************************************************************************)
(* Sources for the scanning rules: every text of at most MaxSource         *)
(* characters over each of four small alphabets, one per group of rules    *)
(* of tokenize (operators, numbers, words, comments).                      *)
(***************************************************************************)
MaxSource == 4

\* the texts of at most n characters of an alphabet
RECURSIVE Texts(_, _)
Texts(alphabet, n) ==
    IF n = 0 THEN {""}
    ELSE LET shorter == Texts(alphabet, n - 1)
         IN  shorter \cup {t \o c : t \in shorter, c \in alphabet}

OperatorChars == {":", "<", ">", "=", " ", "x"}
NumberChars == {"3", "4", ".", "x", ArabicIndicDigitThree, "\n"}
WordChars == {"a", "Z", "_", "9", LatinSmallEAcute, "#", " "}
CommentChars == {"{", "}", "(", "*", ")", "x", "\n"}

\* a comment opened inside a comment, in each of the two styles
NestedComments == {"{ { } }", "(*(**)*)"}

ScanSources ==
    Texts(OperatorChars, MaxSource) \cup Texts(NumberChars, MaxSource)
        \cup Texts(WordChars, MaxSource) \cup Texts(CommentChars, MaxSource)
        \cup NestedComments

ScanInit ==
    /\ \E text \in ScanSources : LexerInit(text)
    /\ NoParser

ScanSpec == ScanInit /\ [][LexNext]_<<vars, lexvars>>

\* sources for the runs of tokenize to their end: the texts of less than
\* MaxSource characters over five alphabets of three characters, and a few
\* longer texts with closed comments, a real number and several lines
TerminatingAlphabets ==
    {{"{", "}", "x"}, {"(", "*", ")"}, {" ", "3", "."}, {"\n", "a", ":"},
     {"<", "=", "#"}}

LongerSources == {"(**)x", "{x}\n3.5 a", " \n  x", "a:=3.#"}

TerminatingSources ==
    UNION {Texts(a, MaxSource - 1) : a \in TerminatingAlphabets}
        \cup NestedComments \cup LongerSources

ScanTerminationInit ==
    /\ \E text \in TerminatingSources : LexerInit(text)
    /\ NoParser

\* tokenize runs on one thread and waits for nothing: while the loop or the
\* code after it has a step to take, it is taken
ScanTerminationSpec ==
    /\ ScanTerminationInit
    /\ [][LexNext]_<<vars, lexvars>>
    /\ WF_<<vars, lexvars>>(LexNext)

(***************************************************************************)
(* tokenize called again on the same Lexer object, after the first call    *)
(* has returned: lines 189-288 run on the fields the first call left.      *)
(***************************************************************************)
\* the second call of tokenize; the list the first call returned is kept
\* for comparison (line 189 binds self.tokens to a new list, so the list
\* returned before is not changed)
TokenizeAgain ==
    /\ lexer_pc = "returned"
    /\ lexer_returned = <<>>
    /\ EnterTokenize
    /\ lexer_returned' = lexer_tokens

RescanNext == TokenizeEntry \/ ScanIteration \/ AppendEOF \/ TokenizeAgain

RescanSpec == ScanInit /\ [][RescanNext]_<<vars, lexvars>>

(***************************************************************************)
(* parse_string: the lexer, then a parser on the tokens it returned.       *)
(***************************************************************************)
\* `program test; var x: integer; begin x := 5 end.`
SampleProgram == "program test; var x: integer; begin x := 5 end."

\* a program on several lines, with a comment and keywords in mixed case
LayoutProgram ==
    "PROGRAM t;\nBegin\n  { nothing }\n  If x<=3.14 Then y:=x Else y:=-x\nEND."

\* a text with one character replaced, and with one character left out
WithCharAt(text, i, c) ==
    SubSeq(text, 1, i - 1) \o c \o SubSeq(text, i + 1, Len(text))

WithoutCharAt(text, i) ==
    SubSeq(text, 1, i - 1) \o SubSeq(text, i + 1, Len(text))

Damaged(text) ==
    {WithCharAt(text, i, "#") : i \in 1..Len(text)}
        \cup {WithoutCharAt(text, i) : i \in 1..Len(text)}

SampleSources ==
    Damaged(SampleProgram) \cup Damaged(LayoutProgram) \cup
    { SampleProgram,
      "program t; begin x := end.",
      LayoutProgram,
      "program t; begin x := 5 # 3 end.",
      "program t;\nbegin\n  x := 5 }\nend.",
      "program t; begin ; end.",
      "program t; begin x = 5 end.",
      "program t; begin end",
      "begin end.",
      "" }

\* parse_string, line 111: parser = LL1Parser(tokens)
CreateParser ==
    /\ lexer_pc = "returned"
    /\ pc = "unbuilt"
    /\ tokens' = lexer_tokens
    /\ pos' = 0
    /\ stack' = <<>>
    /\ pc' = "init"
    /\ UNCHANGED <<nodes, tree, step, error, table, recorded, other>>
    /\ UNCHANGED lexvars

StringInit ==
    /\ \E text \in SampleSources : LexerInit(text)
    /\ NoParser

StringNext ==
    TokenizeEntry \/ ScanIteration \/ AppendEOF \/ CreateParser
        \/ ParseEntry \/ LoopIteration

StringSpec == StringInit /\ [][StringNext]_<<vars, lexvars>>

(***************************************************************************)
(* Reading the tree (parse_tree.py).                                       *)
(***************************************************************************)
\* a test that looks at the children only
node_has_no_children(n) == Len(nodes[n].children) = 0

\* ParseTreeNode.is_terminal
node_is_terminal(n) == Len(nodes[n].children) = 0 /\ nodes[n].symbol # EPSILON

\* ParseTreeNode.is_epsilon
node_is_epsilon(n) == nodes[n].symbol = EPSILON

\* a descriptor that shows whatever value the node has
node_str_showing_every_value(n, depth) ==
    [indent |-> 2 * depth, symbol |-> nodes[n].symbol,
     value |-> nodes[n].value, node |-> n]

\* a descriptor that never shows the value
node_str_without_value(n, depth) ==
    [indent |-> 2 * depth, symbol |-> nodes[n].symbol, value |-> "", node |-> n]

\* lines 66-75: the descriptor is the indentation (two blanks per level),
\* the symbol and, when shown, the value in parentheses
node_str(n, depth) ==
    [indent |-> 2 * depth,
     symbol |-> nodes[n].symbol,
     value  |-> IF nodes[n].value # "" /\ nodes[n].value # nodes[n].symbol
                THEN nodes[n].value ELSE "",
     node   |-> n]

\* ParseTree._preorder_helper; PreorderEach is its loop over node.children,
\* here children[i..j], left to right
RECURSIVE preorder_helper(_, _, _), PreorderEach(_, _, _, _, _)
RECURSIVE PreorderEachBackwards(_, _, _, _, _)
preorder_helper(n, depth, include_epsilon) ==
    IF n = NoNode THEN <<>>
    ELSE IF node_is_epsilon(n) /\ ~include_epsilon THEN <<>>
    ELSE <<node_str(n, depth)>>
         \o PreorderEach(nodes[n].children, 1, Len(nodes[n].children),
                         depth + 1, include_epsilon)

\* a loop over the children from the last to the first
PreorderEachBackwards(children, i, j, depth, include_epsilon) ==
    IF i > j THEN <<>>
    ELSE IF i = j THEN preorder_helper(children[i], depth, include_epsilon)
    ELSE PreorderEachBackwards(children, (i + j) \div 2 + 1, j, depth,
                               include_epsilon)
         \o PreorderEachBackwards(children, i, (i + j) \div 2, depth,
                                  include_epsilon)

PreorderEach(children, i, j, depth, include_epsilon) ==
    IF i > j THEN <<>>
    ELSE IF i = j THEN preorder_helper(children[i], depth, include_epsilon)
    ELSE PreorderEach(children, i, (i + j) \div 2, depth, include_epsilon)
         \o PreorderEach(children, (i + j) \div 2 + 1, j, depth, include_epsilon)

\* ParseTree.preorder_traversal
preorder_traversal(include_epsilon) == preorder_helper(tree, 0, include_epsilon)

(***************************************************************************)
(* parse called again on the same LL1Parser object.  Nothing in parse or   *)
(* in __init__ forbids it; the second call runs lines 40-100 on the fields *)
(* the first call left behind.                                             *)
(***************************************************************************)
\* the tree as its caller can observe it: depth, symbol and value of every
\* node in preorder, epsilon nodes included
TreeShape ==
    LET walk == preorder_traversal(TRUE)
    IN  [i \in DOMAIN walk |->
            <<walk[i].indent, nodes[walk[i].node].symbol,
              nodes[walk[i].node].value>>]

\* what a completed call of parse gives its caller: (True, tree) from line
\* 63, or the ParserError it raised
Outcome ==
    [pc    |-> pc,
     error |-> IF pc = "raised" THEN error ELSE NoError,
     shape |-> IF pc = "accepted" THEN TreeShape ELSE <<>>]

\* the second call of parse on the parser, after the first has returned or
\* raised; the outcome of the first is kept for comparison
ParseAgain ==
    /\ pc \in {"accepted", "raised"}
    /\ recorded = NoOutcome
    /\ EnterParse
    /\ recorded' = Outcome
    /\ UNCHANGED other

ReuseNext == ParseEntry \/ LoopIteration \/ ParseAgain

ReuseSpec == Init /\ [][ReuseNext]_<<vars, lexvars>>

(***************************************************************************)
(* Two LL1Parser objects whose calls of parse take turns.  The variables   *)
(* tokens .. error are the fields and locals of the parser that is taking  *)
(* its step; those of the parser that waits are in `other`.  The node      *)
(* objects (nodes) and the parse table are the memory both can reach.      *)
(* Parser A first runs alone and its outcome is recorded; then a new       *)
(* parser A on the same tokens and parser B run with their steps           *)
(* interleaved in every order.                                             *)
(***************************************************************************)
\* `program t ; begin end .`
MinimalProgram == <<"program", "id", ";", "begin", "end", ".">>

InterleavedTerms ==
    {MinimalProgram, Front(MinimalProgram), MissingRhs}

InterleavedInputs == {MakeTokens(w, "lower") : w \in InterleavedTerms}

\* the name of the parser whose fields are in tokens .. error
running_parser == IF other.name = "A" THEN "B" ELSE "A"

\* parser A on one input and, not yet started, parser B on another
InterleaveInit ==
    /\ tokens \in InterleavedInputs
    /\ pos = 0
    /\ stack = <<>>
    /\ nodes = <<>>
    /\ tree = NoNode
    /\ step = 0
    /\ pc = "init"
    /\ error = NoError
    /\ table = PARSE_TABLE
    /\ recorded = NoOutcome
    /\ other \in {ParserObject("B", b, 0, <<>>, NoNode, 0, "init", NoError) :
                     b \in InterleavedInputs \ {tokens}}
    /\ source = ""
    /\ lexer_pos = 0
    /\ lexer_line = 1
    /\ lexer_column = 1
    /\ lexer_tokens = <<>>
    /\ lexer_pc = "idle"
    /\ lexer_error = NoLexerError
    /\ lexer_returned = <<>>

\* the run of A alone is over: its outcome is kept and a new LL1Parser is
\* built on the same tokens (__init__, lines 23-27)
StartTogether ==
    /\ pc \in {"accepted", "raised"}
    /\ recorded = NoOutcome
    /\ recorded' = Outcome
    /\ pos' = 0
    /\ stack' = <<>>
    /\ tree' = NoNode
    /\ step' = 0
    /\ pc' = "init"
    /\ error' = NoError
    /\ UNCHANGED <<tokens, nodes, table, other>>
    /\ UNCHANGED lexvars

\* a switch after which both parsers read one cursor
SwitchSharingCursor ==
    /\ recorded # NoOutcome
    /\ other.pc \in {"init", "running"}
    /\ tokens' = other.tokens
    /\ stack' = other.stack
    /\ tree' = other.tree
    /\ step' = other.step
    /\ pc' = other.pc
    /\ error' = other.error
    /\ other' = ParserObject(running_parser, tokens, pos, stack, tree, step,
                             pc, error)
    /\ UNCHANGED <<pos, nodes, table, recorded>>
    /\ UNCHANGED lexvars

\* the parser that waits takes the next step: each parser keeps its own
\* self.tokens, self.pos, self.stack (lines 24-27) and its own locals
Switch ==
    /\ recorded # NoOutcome
    /\ other.pc \in {"init", "running"}
    /\ tokens' = other.tokens
    /\ pos' = other.pos
    /\ stack' = other.stack
    /\ tree' = other.tree
    /\ step' = other.step
    /\ pc' = other.pc
    /\ error' = other.error
    /\ other' = ParserObject(running_parser, tokens, pos, stack, tree, step,
                             pc, error)
    /\ UNCHANGED <<nodes, table, recorded>>
    /\ UNCHANGED lexvars

InterleaveNext == ParseEntry \/ LoopIteration \/ StartTogether \/ Switch

InterleaveSpec == InterleaveInit /\ [][InterleaveNext]_<<vars, lexvars>>

(***************************************************************************)
(* Properties.                                                             *)
(***************************************************************************)
\* the terminal categories of the tokens before the end-of-input token
Terms(toks) == [i \in 1..(Len(toks) - 1) |-> get_terminal(toks[i])]

\* the concatenation of the sequences ss[i..j]
RECURSIVE Flatten(_, _, _)
Flatten(ss, i, j) ==
    IF i > j THEN <<>>
    ELSE IF i = j THEN ss[i]
    ELSE Flatten(ss, i, (i + j) \div 2) \o Flatten(ss, (i + j) \div 2 + 1, j)

\* the leaves below the nodes of ns, left to right: every node that has
\* children is replaced by them until none has any
RECURSIVE Frontier(_)
Frontier(ns) ==
    IF \A i \in DOMAIN ns : nodes[ns[i]].children = <<>> THEN ns
    ELSE Frontier(Flatten([i \in DOMAIN ns |->
                              IF nodes[ns[i]].children = <<>> THEN <<ns[i]>>
                              ELSE nodes[ns[i]].children],
                          1, Len(ns)))

\* the terminal leaves of the tree in left-to-right (preorder) order,
\* epsilon ignored, as <<symbol, value>> pairs
TerminalLeaves ==
    LET leaves == SelectSeq(Frontier(<<tree>>), node_is_terminal)
    IN  [i \in 1..Len(leaves) |->
            <<nodes[leaves[i]].symbol, nodes[leaves[i]].value>>]

ChildSymbols(n) ==
    [i \in 1..Len(nodes[n].children) |-> nodes[nodes[n].children[i]].symbol]

\* C1 (fails on the code): a token sequence derivable from Program by
\* PRODUCTIONS is never rejected: parse raises no ParserError on it.
C1_Completeness ==
    Terms(tokens) \in ValidPrograms => pc # "raised"

\* C2: whenever parse accepts, the terminal leaves of the tree in preorder
\* (epsilon ignored) are, one for one and in order, the tokens before EOF:
\* the i-th leaf has the i-th token's terminal as symbol and its lexeme as
\* value.
C2_LeavesAreTokens ==
    pc = "accepted" =>
        TerminalLeaves =
            [i \in 1..(Len(tokens) - 1) |->
                <<get_terminal(tokens[i]), tokens[i].value>>]

\* an accepted program some of whose lexemes differ from their terminals
C2_Witness ==
    /\ pc = "accepted"
    /\ Len(TerminalLeaves) >= 9
    /\ \E i \in 1..(Len(tokens) - 1) : tokens[i].value # get_terminal(tokens[i])

\* C3: whenever parse accepts, the tree is a derivation: the root is
\* Program, every nonterminal node's children spell one alternative of that
\* nonterminal in PRODUCTIONS (the epsilon alternative as a single epsilon
\* leaf), and terminal and epsilon nodes are leaves.
C3_TreeIsDerivation ==
    pc = "accepted" =>
        /\ tree # NoNode
        /\ nodes[tree].symbol = "Program"
        /\ \A n \in DOMAIN nodes :
              IF is_nonterminal(nodes[n].symbol)
              THEN ChildSymbols(n) \in Range(PRODUCTIONS[nodes[n].symbol])
              ELSE nodes[n].children = <<>>

\* an accepted tree that holds an epsilon alternative and a longer one
C3_Witness ==
    /\ pc = "accepted"
    /\ \E n \in DOMAIN nodes : ChildSymbols(n) = <<EPSILON>>
    /\ \E n \in DOMAIN nodes : Len(nodes[n].children) >= 5

\* C4: parse accepts only in the step that pops the end-marker while the
\* current token is end-of-input; then the cursor is on the final EOF
\* token, every token before it has been matched, and the input is not a
\* program followed by a further token.
C4_AcceptOnlyAtEnd ==
    [][pc' = "accepted" =>
          /\ pc = "running"
          /\ Len(stack) > 0
          /\ top_symbol = "$"
          /\ current.type = "EOF"
          /\ pos = Len(tokens) - 1
          /\ pos' = pos
          /\ Cardinality({n \in DOMAIN nodes' :
                            nodes'[n].value # ""}) = Len(tokens) - 1
          /\ Terms(tokens) \notin WithExtra]_vars

\* an accepting run has ended with the cursor on the EOF token
C4_Witness ==
    /\ pc = "accepted"
    /\ pos = Len(tokens) - 1
    /\ tokens[pos + 1].type = "EOF"
    /\ stack = <<>>

\* the three raise sites of parse, told apart by the message
IsMismatchError(e) == e.message # <<>> /\ e.message[1] = "Expected"
IsNoProductionError(e) == e.message # <<>> /\ e.message[1] = "No production for"
IsEndOfParsingError(e) == e.message = <<"Unexpected end of parsing">>

Truncated == Terms(tokens) \in (DropDot \cup DropEndDot)

\* C5 as stated (fails on the code): a valid program without its trailing
\* `end.` or `.` is never accepted and fails with a terminal-mismatch or a
\* premature-end-of-input error, not with a no-production error.
C5_AsStated ==
    Truncated =>
        /\ pc # "accepted"
        /\ pc = "raised" => IsMismatchError(error) \/ IsEndOfParsingError(error)

\* C5 amended: a valid program without its trailing `end.` or `.` is never
\* accepted, and it fails with a terminal-mismatch or a no-production error
\* that carries the offending token; without `end.` the error is always a
\* no-production error, and without only `.` a mismatch is one that
\* expected `.` and found the end of input.
C5_TruncatedFails ==
    Truncated =>
        /\ pc # "accepted"
        /\ pc = "raised" =>
              /\ IsMismatchError(error) \/ IsNoProductionError(error)
              /\ error.token \in Range(tokens)
              /\ Terms(tokens) \in DropEndDot => IsNoProductionError(error)
              /\ (Terms(tokens) \in DropDot /\ IsMismatchError(error)) =>
                    /\ error.message[2] = "."
                    /\ error.token.type = "EOF"

\* a program without its `end.` has failed at the end of input for want of
\* a production
C5_Witness ==
    /\ Terms(tokens) \in DropEndDot
    /\ pc = "raised"
    /\ IsNoProductionError(error)
    /\ error.token.type = "EOF"

\* the step pops a nonterminal and expands it to epsilon, or pops epsilon
IsEpsilonStep ==
    /\ pc = "running"
    /\ Len(stack) > 0
    /\ ~accept_condition
    /\ \/ top_symbol = EPSILON
       \/ /\ ~is_terminal(top_symbol)
          /\ is_nonterminal(top_symbol)
          /\ production = <<EPSILON>>

\* C6: a step that expands the popped nonterminal to epsilon (or pops an
\* epsilon symbol) consumes no input and pushes nothing: the cursor and
\* the current token are unchanged, the stack is the old one without its
\* top, and the parse goes on.
C6_EpsilonConsumesNothing ==
    [][IsEpsilonStep =>
          /\ pos' = pos
          /\ current_token' = current_token
          /\ stack' = popped
          /\ pc' = "running"]_vars

\* an epsilon expansion has happened and the parse goes on
C6_Witness ==
    /\ pc = "running"
    /\ pos > 0
    /\ \E n \in DOMAIN nodes : nodes[n].symbol = EPSILON

\* C7: while parse runs the stack is never empty and the end-marker stays
\* at its bottom (and nowhere else), and no run ends in the fall-through
\* error after the loop.
C7_StackNeverEmpty ==
    /\ pc = "running" =>
          /\ Len(stack) > 0
          /\ stack[1] = <<"$", NoNode>>
          /\ \A i \in 2..Len(stack) : stack[i][1] # "$"
    /\ ~IsEndOfParsingError(error)

\* only the end-marker is left on the stack of a running parse
C7_Witness ==
    /\ pc = "running"
    /\ stack = <<<<"$", NoNode>>>>
    /\ pos > 0

\* the step pops a terminal other than epsilon (and is not the accept)
IsTerminalStep ==
    /\ pc = "running"
    /\ Len(stack) > 0
    /\ ~accept_condition
    /\ is_terminal(top_symbol)
    /\ top_symbol # EPSILON

\* C8 as stated (fails on the code): a popped terminal that differs from
\* the current token's terminal fails with an error naming the expected
\* terminal and the current token's terminal category, the cursor
\* unchanged; an equal one stores the lexeme and advances by one.
C8_AsStated ==
    [][IsTerminalStep =>
          IF top_symbol = current_terminal
          THEN /\ nodes'[top_node].value = current.value
               /\ pos' = pos + 1
               /\ pc' = "running"
          ELSE /\ pc' = "raised"
               /\ error'.message =
                     <<"Expected", top_symbol, "but found", current_terminal>>
               /\ pos' = pos]_vars

\* C8 amended: a popped terminal that differs from the current token's
\* terminal fails with an error that names the expected terminal and the
\* current token's lexeme and carries that token, the cursor unchanged; an
\* equal one stores the lexeme in the paired node and advances the cursor
\* by exactly one.
C8_TerminalStep ==
    [][IsTerminalStep =>
          IF top_symbol = current_terminal
          THEN /\ top_node # NoNode
               /\ nodes'[top_node].value = current.value
               /\ pos' = pos + 1
               /\ pc' = "running"
          ELSE /\ pc' = "raised"
               /\ error'.message =
                     <<"Expected", top_symbol, "but found", current.value>>
               /\ error'.token = current
               /\ pos' = pos
               /\ nodes' = nodes]_vars

\* a mismatch was raised on a token whose lexeme is not its terminal
C8_Witness ==
    /\ pc = "raised"
    /\ IsMismatchError(error)
    /\ error.message[4] = error.token.value
    /\ error.token.value # get_terminal(error.token)
    /\ pos > 0
    /\ nodes[Len(nodes)].value = ""

\* the step pops a nonterminal for which the table has no cell
IsNoProductionStep ==
    /\ pc = "running"
    /\ Len(stack) > 0
    /\ ~accept_condition
    /\ ~is_terminal(top_symbol)
    /\ is_nonterminal(top_symbol)
    /\ (top_symbol \notin DOMAIN table
        \/ current_terminal \notin DOMAIN table[top_symbol])

\* C9: when the popped nonterminal A has no table entry under the current
\* terminal t, parse fails at once with a no-production error naming A and
\* t and carrying the current token; no node is added and no token is
\* consumed.
C9_NoProduction ==
    [][IsNoProductionStep =>
          /\ pc' = "raised"
          /\ error'.message = <<"No production for", top_symbol, current_terminal>>
          /\ error'.token = current
          /\ error'.token = tokens[pos + 1]
          /\ nodes' = nodes
          /\ pos' = pos]_vars

\* a no-production error was raised after some tokens were matched
C9_Witness ==
    /\ pc = "raised"
    /\ IsNoProductionError(error)
    /\ error.token = tokens[pos + 1]
    /\ pos >= 4

\* C10: parsing `program t; begin x := end.` never accepts and fails exactly
\* when Expression is popped under the `end` keyword, with the
\* no-production error for Expression and `end`.
C10_MissingRhs ==
    [][(Terms(tokens) = MissingRhs /\ pc' # "running") =>
          /\ pc' = "raised"
          /\ top_symbol = "Expression"
          /\ current.type = "END"
          /\ pos = 6
          /\ error' = ParserError(<<"No production for", "Expression", "end">>,
                                  tokens[7])]_vars

\* the parse of `program t; begin x := end.` has failed
C10_Witness ==
    /\ tokens = MakeTokens(MissingRhs, "lower")
    /\ tokens[2].value = "t"
    /\ tokens[5].value = "x"
    /\ pc = "raised"
    /\ error.message[2] = "Expression"

\* the lookahead terminals, the end marker among them
Lookaheads == Range(TERMINALS)

\* the alternatives of A selectable under the lookahead t
SelectableAlternatives(A, t) ==
    {k \in DOMAIN PRODUCTIONS[A] : t \in SelectSets[A][k]}

\* C12 (fails on the code): the grammar is LL(1): for every nonterminal A
\* and every lookahead terminal t, at most one alternative of A in
\* PRODUCTIONS is selectable (t in FIRST of the alternative, or the
\* alternative nullable and t in FOLLOW(A)), FIRST and FOLLOW being computed
\* from PRODUCTIONS.  Stated of every pair the parser meets: the
\* nonterminal A it pops and the lookahead t it then has.
C12_GrammarIsLL1 ==
    (pc = "running" /\ Len(stack) > 0 /\ is_nonterminal(top_symbol)) =>
        Cardinality(SelectableAlternatives(top_symbol, current_terminal)) <= 1

\* C13 (fails on the code): the table is complete: for every alternative
\* alpha of a nonterminal A reachable from Program and every terminal t
\* under which alpha is selectable, the table has a cell for (A, t).
C13_TableComplete ==
    \A A \in Reachable : \A k \in DOMAIN PRODUCTIONS[A] :
        \A t \in SelectSets[A][k] :
            get_production(A, t) # NoProduction

\* for every nonterminal and lookahead, the alternatives selectable under it
SelectableProductions ==
    [A \in DOMAIN PRODUCTIONS |->
        [t \in Lookaheads |->
            {PRODUCTIONS[A][k] : k \in SelectableAlternatives(A, t)}]]

\* C14: the table is sound: every cell (A, t) holds one of the alternatives
\* of A in PRODUCTIONS, and that alternative is selectable under t.
C14_TableSound ==
    \A A \in DOMAIN table : \A t \in DOMAIN table[A] :
        /\ A \in DOMAIN PRODUCTIONS
        /\ t \in Lookaheads
        /\ get_production(A, t) \in SelectableProductions[A][t]

\* the parser is about to expand a nonterminal by an epsilon cell that only
\* FOLLOW justifies
C14_Witness ==
    /\ pc = "running"
    /\ Len(stack) > 0
    /\ is_nonterminal(top_symbol)
    /\ production = <<EPSILON>>
    /\ current_terminal \in ComputedFollow[top_symbol]
    /\ current_terminal \notin ComputedFirst[top_symbol]

\* what a traversal shows of each node: the symbol and the value in
\* parentheses, if any
Shown(traversal) ==
    [i \in 1..Len(traversal) |-> <<traversal[i].symbol, traversal[i].value>>]

\* does sub[i..] occur in seq[j..] as an ordered subsequence
RECURSIVE Embeds(_, _, _, _)
Embeds(sub, seq, i, j) ==
    IF i > Len(sub) THEN TRUE
    ELSE IF j > Len(seq) THEN FALSE
    ELSE IF sub[i] = seq[j] THEN Embeds(sub, seq, i + 1, j + 1)
    ELSE Embeds(sub, seq, i, j + 1)

SampleTraversal ==
    << <<"Program", "">>, <<"program", "">>, <<"id", "test">>, <<";", "">>,
       <<"Block", "">>, <<"Declarations", "">>, <<"var", "">>,
       <<"DeclList", "">>, <<"Decl", "">>, <<"IdList", "">>, <<"id", "x">>,
       <<"IdListP", "">>, <<":", "">>, <<"Type", "">>, <<"integer", "">>,
       <<";", "">>, <<"begin", "">>, <<"StmtList", "">>, <<"Statement", "">>,
       <<"id", "x">>, <<":=", "">>, <<"Expression", "">>, <<"Term", "">>,
       <<"Factor", "">>, <<"num", "5">>, <<"end", "">>, <<".", "">> >>

\* C11: parsing `program test; var x: integer; begin x := 5 end.` raises no
\* lexer or parser error and, once accepted, the preorder traversal without
\* epsilon contains, as an ordered subsequence, Program, program, id(test),
\* ;, Block, Declarations, var, DeclList, Decl, IdList, id(x), IdListP, :,
\* Type, integer, ;, begin, StmtList, Statement, id(x), :=, Expression,
\* Term, Factor, num(5), end, .
C11_SampleProgram ==
    source = SampleProgram =>
        /\ lexer_pc # "raised"
        /\ pc # "raised"
        /\ pc = "accepted" =>
              Embeds(SampleTraversal, Shown(preorder_traversal(FALSE)), 1, 1)

\* the sample program has been accepted; its traversal holds more nodes
\* than the listed ones and, with epsilon, more still
C11_Witness ==
    /\ source = SampleProgram
    /\ pc = "accepted"
    /\ Len(preorder_traversal(FALSE)) > Len(SampleTraversal)
    /\ Len(preorder_traversal(TRUE)) > Len(preorder_traversal(FALSE))

\* the 1-based line and column of the character at 0-based offset p
LineAt(p) ==
    1 + Cardinality({i \in 1..p : SubSeq(source, i, i) = "\n"})

ColumnAt(p) ==
    LET breaks == {i \in 1..p : SubSeq(source, i, i) = "\n"}
    IN  p + 1 - (IF breaks = {} THEN 0
                 ELSE CHOOSE i \in breaks : \A j \in breaks : j <= i)

\* C15: a rejection by parse_string is exactly one of three kinds, each
\* with the line and column of the offending position: a lexical error on
\* a character (then no parser is ever built), a mismatch error or a
\* no-production error (then the lexer had returned); the parser's error
\* carries the offending token, which is the token at the cursor.
C15_RejectionKinds ==
    /\ lexer_pc = "raised" =>
          /\ pc = "unbuilt"
          /\ lexer_pos < Len(source)
          /\ lexer_error.message =
                <<"Unexpected character:", SubSeq(source, lexer_pos + 1, lexer_pos + 1)>>
          /\ lexer_error.line = LineAt(lexer_pos)
          /\ lexer_error.column = ColumnAt(lexer_pos)
    /\ pc = "raised" =>
          /\ lexer_pc = "returned"
          /\ IsMismatchError(error) \/ IsNoProductionError(error)
          /\ ~(IsMismatchError(error) /\ IsNoProductionError(error))
          /\ error.token # NoToken
          /\ error.token = tokens[pos + 1]
          /\ error.token.line >= 1
          /\ error.token.column >= 1

\* a lexical error below the first line, after some tokens were scanned
C15_Witness ==
    /\ lexer_pc = "raised"
    /\ lexer_error.line > 1
    /\ lexer_error.column > 1
    /\ Len(lexer_tokens) > 3

\* the characters of an identifier: ASCII letters, ASCII digits, underscore
IdentChar(c) == c \in AsciiLetters \cup AsciiDigits \cup {"_"}

\* the identifier-shaped lexeme that starts at 0-based offset p: the longest
\* run of identifier characters from there
WordAt(p) ==
    LET n == CHOOSE k \in 1..(Len(source) - p) :
                 /\ \A i \in 1..k : IdentChar(SubSeq(source, p + i, p + i))
                 /\ (p + k = Len(source)
                     \/ ~IdentChar(SubSeq(source, p + k + 1, p + k + 1)))
    IN  SubSeq(source, p + 1, p + n)

\* the scanner is at a letter or an underscore
IsWordStep ==
    /\ lexer_pc = "scanning"
    /\ lexer_pos < Len(source)
    /\ SubSeq(source, lexer_pos + 1, lexer_pos + 1) \in AsciiLetters \cup {"_"}

\* the 16 keywords, each with every way to write it in the two cases
Keywords16 ==
    {"program", "var", "begin", "end", "integer", "real", "boolean", "if",
     "then", "else", "while", "do", "read", "write", "div", "mod"}

SameLetters(w, k) ==
    /\ Len(w) = Len(k)
    /\ \A i \in 1..Len(k) :
          SubSeq(w, i, i) \in {SubSeq(k, i, i), upper_char(SubSeq(k, i, i))}

\* C20: keyword recognition is case-insensitive and casing-preserving: an
\* identifier-shaped lexeme that is one of the 16 keywords up to the case of
\* its letters yields that keyword's token type (the keyword in capitals)
\* with the lexeme as written, and any other identifier-shaped lexeme
\* yields an ID token with the lexeme as written.
C20_KeywordCase ==
    [][IsWordStep =>
          LET w == WordAt(lexer_pos)
              type == IF \E k \in Keywords16 : SameLetters(w, k)
                      THEN upper(CHOOSE k \in Keywords16 : SameLetters(w, k))
                      ELSE "ID"
          IN  /\ lexer_tokens' =
                    Append(lexer_tokens, Token(type, w, lexer_line, lexer_column))
              /\ lexer_pos' = lexer_pos + Len(w)
              /\ lexer_pc' = "scanning"]_<<vars, lexvars>>

\* `Program` was scanned as the program keyword, spelt as written
C20_Witness ==
    /\ lexer_pc = "returned"
    /\ source = "x Program y"
    /\ lexer_tokens[2].type = "PROGRAM"
    /\ lexer_tokens[2].value = "Program"

\* the leaves of the tree that carry a lexeme, left to right
MatchedLeaves ==
    LET HasValue(leaf) == leaf[2] # ""
    IN  SelectSeq(TerminalLeaves, HasValue)

\* C16: a malformed input produces exactly one error, at the point of
\* mismatch: when parse fails, the error's token is the token at the
\* cursor, the tokens before it are, one for one and in order, the leaves
\* of the partial tree that carry a lexeme, the failing step consumes no
\* token and adds no node, and no step follows the error.
C16_OneErrorAtMismatch ==
    [][/\ pc # "raised"
       /\ pc' = "raised" =>
             /\ error'.token = tokens[pos + 1]
             /\ pos' = pos
             /\ nodes' = nodes
             /\ tree' = tree
             /\ MatchedLeaves =
                   [i \in 1..pos |-> <<get_terminal(tokens[i]), tokens[i].value>>]
      ]_<<vars, lexvars>>

\* parse has failed in the middle of the input, after matching some tokens
C16_Witness ==
    /\ pc = "raised"
    /\ pos >= 3
    /\ pos + 1 < Len(tokens)
    /\ Len(MatchedLeaves) = pos
    /\ error.token = tokens[pos + 1]


\* C17: parse never changes the token list or any list of the parse table,
\* whether the run accepts or fails, on a first or a second call; nodes
\* that existed before the run began (those below its root) stay as they
\* were, so only nodes of the run, the stack and the cursor change.
C17_ParseFrame ==
    [][/\ tokens' = tokens
       /\ table' = table
       /\ \A n \in DOMAIN nodes :
              (tree' # NoNode /\ n < tree') => nodes'[n] = nodes[n]]_<<vars, lexvars>>

\* a second run has expanded a production and added nodes above those of
\* the first run, and has ended
C17_Witness ==
    /\ recorded # NoOutcome
    /\ pc \in {"accepted", "raised"}
    /\ tree > 1
    /\ Len(nodes) > tree
    /\ Len(nodes[tree].children) > 0

\* C18 (fails on the code): a second call of parse on the same parser starts
\* with the cursor at the first token, the stack [$, Program] and a fresh
\* tree, and ends with the outcome of the first call.
C18_SecondCallSame ==
    recorded # NoOutcome =>
        /\ (pc = "running" /\ step = 0) =>
               /\ pos = 0
               /\ stack = <<<<"$", NoNode>>, <<"Program", tree>>>>
               /\ nodes[tree] = ParseTreeNode("Program")
        /\ pc \in {"accepted", "raised"} => Outcome = recorded


\* C19: of two parsers on different inputs whose steps are interleaved in
\* any order, each ends as it does when run alone: the same acceptance or
\* the same error, and the same tree; the parse table stays as it was.
C19_InterleavedSameAsAlone ==
    (recorded # NoOutcome /\ running_parser = "A"
         /\ pc \in {"accepted", "raised"}) =>
        /\ Outcome = recorded
        /\ table = PARSE_TABLE

\* parser A has accepted after parser B, whose steps came in between, has
\* built part of its own tree and is not finished
C19_Witness ==
    /\ recorded # NoOutcome
    /\ running_parser = "A"
    /\ pc = "accepted"
    /\ other.pc = "running"
    /\ other.tree # NoNode
    /\ other.pos > 0
    /\ tree < other.tree
    /\ Len(nodes) > other.tree


\* the four two-character operators: first character, second character and
\* token type
OperatorPairs ==
    {<<":", "=", "ASSIGN">>, <<"<", "=", "LESS_EQUAL">>,
     <<">", "=", "GREATER_EQUAL">>, <<"<", ">", "NOT_EQUAL">>}

\* the one-character token types of the two halves of each operator
SplitPairs ==
    {<<"COLON", "EQUAL">>, <<"LESS", "EQUAL">>, <<"GREATER", "EQUAL">>,
     <<"LESS", "GREATER">>}

\* no two tokens next to each other in the list and in the text are the two
\* halves of a two-character operator
NeverSplit(toks) ==
    \A i \in 1..(Len(toks) - 1) :
        (toks[i].line = toks[i + 1].line
            /\ toks[i].column + 1 = toks[i + 1].column)
        => <<toks[i].type, toks[i + 1].type>> \notin SplitPairs

\* C21: whenever an iteration of the scanner begins at `:`, `<` or `>` and
\* the next character completes `:=`, `<=`, `>=` or `<>`, the iteration
\* appends one token of the operator's type with the two characters as
\* lexeme and moves two characters on; the token list never holds the two
\* halves of an operator as adjacent one-character tokens.
C21_GreedyOperators ==
    [][/\ \A op \in OperatorPairs :
              (lexer_pc = "scanning"
                  /\ lexer_pos + 2 <= Len(source)
                  /\ SubSeq(source, lexer_pos + 1, lexer_pos + 2) = op[1] \o op[2])
              => /\ lexer_tokens' =
                       Append(lexer_tokens,
                              Token(op[3], op[1] \o op[2], lexer_line,
                                    lexer_column))
                 /\ lexer_pos' = lexer_pos + 2
                 /\ lexer_column' = lexer_column + 2
       /\ NeverSplit(lexer_tokens')]_<<vars, lexvars>>

\* `<<=` was scanned as LESS then LESS_EQUAL
C21_Witness ==
    /\ lexer_pc = "returned"
    /\ source = "<<="
    /\ Len(lexer_tokens) = 3
    /\ lexer_tokens[1].type = "LESS"
    /\ lexer_tokens[2] = Token("LESS_EQUAL", "<=", 1, 2)


\* the character at 0-based offset p of the source, "" past its end
CharAt(p) == IF p < Len(source) THEN SubSeq(source, p + 1, p + 1) ELSE ""

\* a digit, as the lexer classifies characters
IsDigitAt(p) == CharAt(p) # "" /\ isdigit(CharAt(p))

\* the length of the longest run of digits from offset p
DigitRun(p) ==
    CHOOSE k \in 0..(Len(source) - p) :
        /\ \A i \in 0..(k - 1) : IsDigitAt(p + i)
        /\ ~IsDigitAt(p + k)

\* the length of the numeric literal at offset p: a longest digit run and,
\* when a `.` and a digit follow it, the `.` and the longest digit run
\* after it
LiteralLength(p) ==
    LET whole == DigitRun(p)
    IN  IF CharAt(p + whole) = "." /\ IsDigitAt(p + whole + 1)
        THEN whole + 1 + DigitRun(p + whole + 1)
        ELSE whole

\* the 0-based offset of the character at a line and a column
OffsetOf(l, c) ==
    CHOOSE p \in 0..Len(source) : LineAt(p) = l /\ ColumnAt(p) = c

\* C22: an iteration of the scanner that begins at a digit appends one NUM
\* token whose lexeme is the longest digit run there, extended by a `.` and
\* the longest digit run after it only when a digit follows the `.`; a `.`
\* that follows a NUM token in the text is then a DOT token of its own,
\* the next one in the list.
C22_NumericLiteral ==
    [][/\ (lexer_pc = "scanning" /\ IsDigitAt(lexer_pos)) =>
              LET n == LiteralLength(lexer_pos)
              IN  /\ lexer_tokens' =
                        Append(lexer_tokens,
                               Token("NUM",
                                     SubSeq(source, lexer_pos + 1, lexer_pos + n),
                                     lexer_line, lexer_column))
                  /\ lexer_pos' = lexer_pos + n
       /\ \A i \in 1..(Len(lexer_tokens') - 1) :
              LET t == lexer_tokens'[i]
                  end == OffsetOf(t.line, t.column) + Len(t.value)
              IN  (t.type = "NUM" /\ CharAt(end) = ".") =>
                      lexer_tokens'[i + 1] =
                          Token("DOT", ".", t.line, t.column + Len(t.value))
      ]_<<vars, lexvars>>

\* `3.4.` was scanned as the number 3.4 and a separate `.`
C22_Witness ==
    /\ lexer_pc = "returned"
    /\ source = "3.4."
    /\ lexer_tokens[1] = Token("NUM", "3.4", 1, 1)
    /\ lexer_tokens[2] = Token("DOT", ".", 1, 4)
    /\ Len(lexer_tokens) = 3


\* the characters that begin an operator or a punctuation token
OperatorStarts == CharsOf("+-*/=<>();:,.")

\* a character that is not whitespace and begins neither a comment nor a
\* number, an identifier, an operator or a punctuation token
IsUnexpected(c) ==
    /\ c # ""
    /\ c \notin WhiteSpace
    /\ c # "{"
    /\ ~isdigit(c)
    /\ ~isalpha(c)
    /\ c # "_"
    /\ c \notin OperatorStarts

\* C23: an iteration of the scanner that begins at a character which is
\* not whitespace and begins no comment and no token ends tokenize with a
\* LexerError that carries that character and its 1-based line and column;
\* nothing is returned and no token is added.  tokenize fails in no other
\* case.
C23_UnexpectedCharacter ==
    [][lexer_pc = "scanning" =>
          /\ IsUnexpected(CharAt(lexer_pos)) =>
                 /\ lexer_pc' = "raised"
                 /\ lexer_error' =
                        LexerError(<<"Unexpected character:", CharAt(lexer_pos)>>,
                                   LineAt(lexer_pos), ColumnAt(lexer_pos))
                 /\ lexer_error'.line >= 1
                 /\ lexer_error'.column >= 1
                 /\ lexer_tokens' = lexer_tokens
                 /\ lexer_returned' = lexer_returned
          /\ lexer_pc' = "raised" => IsUnexpected(CharAt(lexer_pos))
      ]_<<vars, lexvars>>

\* a stray `}` on the second line, after a token, was rejected
C23_Witness ==
    /\ lexer_pc = "raised"
    /\ source = "x\nx}"
    /\ lexer_error = LexerError(<<"Unexpected character:", "}">>, 2, 2)
    /\ Len(lexer_tokens) = 2


\* the token types of identifier-shaped lexemes
WordTypes == {"ID"} \cup {KEYWORDS[k] : k \in DOMAIN KEYWORDS}

\* C24 (fails on the code): the lexeme of every ID or keyword token is made
\* of ASCII letters, ASCII digits and underscores and does not begin with a
\* digit, the lexeme of every NUM token of ASCII digits and `.`, so that a
\* letter or digit outside ASCII is in no identifier and no number.
C24_AsciiIdentifiers ==
    \A i \in DOMAIN lexer_tokens :
        LET t == lexer_tokens[i]
        IN  /\ t.type \in WordTypes =>
                  /\ \A c \in CharsOf(t.value) : IdentChar(c)
                  /\ SubSeq(t.value, 1, 1) \notin AsciiDigits
            /\ t.type = "NUM" =>
                  \A c \in CharsOf(t.value) : c \in AsciiDigits \cup {"."}


\* C25: the list tokenize returns ends with the end-of-input token, of type
\* EOF and lexeme `$`, at the line and column just past the last character
\* of the source, and holds no other EOF token; for the empty source it
\* is that token alone, at line 1, column 1.
C25_EndOfInputToken ==
    lexer_pc = "returned" =>
        /\ Len(lexer_tokens) >= 1
        /\ lexer_tokens[Len(lexer_tokens)] =
               Token("EOF", "$", LineAt(Len(source)), ColumnAt(Len(source)))
        /\ \A i \in 1..(Len(lexer_tokens) - 1) :
               lexer_tokens[i].type # "EOF" /\ lexer_tokens[i].value # "$"
        /\ source = "" => lexer_tokens = <<Token("EOF", "$", 1, 1)>>

\* a source that ends with a line break: the end-of-input token is at the
\* start of the next line, after the tokens of the text
C25_Witness ==
    /\ lexer_pc = "returned"
    /\ source = "3\nx\n"
    /\ Len(lexer_tokens) = 3
    /\ lexer_tokens[3] = Token("EOF", "$", 3, 1)


\* the least member of a nonempty set of numbers
Least(S) == CHOOSE q \in S : \A r \in S : q <= r

\* where the comment that opens at offset p ends: just past the first `}`
\* after a `{`, just past the first `*)` that begins after a `(*`, and at
\* the end of the source when there is none
CommentEnd(p) ==
    LET closers ==
            IF CharAt(p) = "{"
            THEN {q + 1 : q \in {r \in (p + 1)..(Len(source) - 1) :
                                    CharAt(r) = "}"}}
            ELSE {q + 2 : q \in {r \in (p + 2)..(Len(source) - 2) :
                                    CharAt(r) = "*" /\ CharAt(r + 1) = ")"}}
    IN  IF closers = {} THEN Len(source) ELSE Least(closers)

\* the scanner is at the opening of a comment
AtComment ==
    /\ lexer_pc = "scanning"
    /\ CharAt(lexer_pos) = "{"
           \/ (CharAt(lexer_pos) = "(" /\ CharAt(lexer_pos + 1) = "*")

\* C26: a comment, closed or not, and a run of whitespace give no token
\* and no error: the iteration of the scanner that begins at `{` or `(*`
\* moves just past the closing delimiter, or to the end of the source when
\* the comment is not closed, and scanning goes on from there with the
\* tokens scanned before it; after an unclosed comment tokenize returns
\* those tokens and the end-of-input token.
C26_CommentsAndWhitespace ==
    [][/\ AtComment =>
              /\ lexer_pos' = CommentEnd(lexer_pos)
              /\ lexer_line' = LineAt(lexer_pos')
              /\ lexer_column' = ColumnAt(lexer_pos')
              /\ lexer_tokens' = lexer_tokens
              /\ lexer_pc' = "scanning"
              /\ lexer_error' = NoLexerError
       /\ (lexer_pc = "scanning" /\ CharAt(lexer_pos) \in WhiteSpace) =>
              /\ lexer_pos' > lexer_pos
              /\ \A q \in lexer_pos..(lexer_pos' - 1) : CharAt(q) \in WhiteSpace
              /\ CharAt(lexer_pos') \notin WhiteSpace
              /\ lexer_tokens' = lexer_tokens
              /\ lexer_pc' = "scanning"
       /\ (lexer_pc = "scanning" /\ lexer_pos = Len(source)) =>
              /\ lexer_pc' = "returned"
              /\ lexer_tokens' =
                     Append(lexer_tokens,
                            Token("EOF", "$", lexer_line, lexer_column))
      ]_<<vars, lexvars>>

\* a `{` comment that is never closed, over a line break: tokenize returned
\* the identifier before it and the end-of-input token
C26_Witness ==
    /\ lexer_pc = "returned"
    /\ source = "x{\nx"
    /\ lexer_tokens = <<Token("ID", "x", 1, 1), Token("EOF", "$", 2, 2)>>


\* C27 (fails on the code): a second call of tokenize on the same Lexer
\* begins at the start of the source, at line 1 and column 1, and returns
\* the token list the first call returned.
C27_TokenizeAgain ==
    lexer_returned # <<>> =>
        /\ (lexer_pc = "scanning" /\ lexer_tokens = <<>>) =>
               /\ lexer_pos = 0
               /\ lexer_line = 1
               /\ lexer_column = 1
        /\ lexer_pc = "returned" => lexer_tokens = lexer_returned


\* a descriptor of a node that is not an epsilon leaf
NotEpsilonEntry(d) == d.symbol # EPSILON

\* the nodes a call of parse has created: its root and those after it
RunNodes == IF tree = NoNode THEN {} ELSE tree..Len(nodes)

\* C28: in the preorder traversal of the tree a call of parse has built
\* when it returns or raises, on a first or a second call, with epsilon
\* included, the root comes first at depth 0, every node of the call comes
\* once, and
\* the children of a node come after it, the first one right after it,
\* from left to right, each one level deeper than the node; the traversal
\* without epsilon is the one with epsilon from which the epsilon entries
\* are removed, the others keeping their order and depth.
C28_PreorderTraversal ==
    pc \in {"accepted", "raised"} =>
        LET full == preorder_traversal(TRUE)
            bare == preorder_traversal(FALSE)
            at(n) == CHOOSE i \in DOMAIN full : full[i].node = n
        IN  /\ full[1].node = tree
            /\ full[1].indent = 0
            /\ Len(full) = Cardinality(RunNodes)
            /\ {full[i].node : i \in DOMAIN full} = RunNodes
            /\ \A i \in DOMAIN full :
                   LET kids == nodes[full[i].node].children
                   IN  /\ full[i].symbol = nodes[full[i].node].symbol
                       /\ kids # <<>> => at(kids[1]) = i + 1
                       /\ \A j \in DOMAIN kids :
                              /\ at(kids[j]) > i
                              /\ full[at(kids[j])].indent = full[i].indent + 2
                              /\ j > 1 => at(kids[j]) > at(kids[j - 1])
            /\ bare = SelectSeq(full, NotEpsilonEntry)

\* an accepted tree with epsilon leaves and with a node whose later child
\* has children of its own
C28_Witness ==
    /\ pc = "accepted"
    /\ Len(preorder_traversal(TRUE)) > Len(preorder_traversal(FALSE)) + 2
    /\ \E n \in DOMAIN nodes :
           /\ Len(nodes[n].children) >= 3
           /\ nodes[nodes[n].children[3]].children # <<>>


\* C29: the descriptor of a node shows a value, the node's, exactly when
\* the node has a non-empty value that differs from its symbol; in the
\* tree parse builds a node with a value is a leaf whose symbol is a
\* terminal, the value being the lexeme of a token of that terminal, and
\* nonterminal and epsilon nodes have the empty value.
C29_DescriptorValue ==
    tree # NoNode =>
        LET full == IF pc \in {"accepted", "raised"}
                    THEN preorder_traversal(TRUE) ELSE <<>>
        IN  /\ \A i \in DOMAIN full :
                   LET n == nodes[full[i].node]
                   IN  /\ full[i].value # "" <=>
                              (n.value # "" /\ n.value # n.symbol)
                       /\ full[i].value # "" => full[i].value = n.value
            /\ \A m \in RunNodes :
                   /\ nodes[m].value # "" =>
                          /\ nodes[m].symbol \in Lookaheads \ {"$"}
                          /\ nodes[m].children = <<>>
                          /\ \E k \in 1..pos :
                                 /\ tokens[k].value = nodes[m].value
                                 /\ get_terminal(tokens[k]) = nodes[m].symbol
                   /\ (is_nonterminal(nodes[m].symbol)
                           \/ nodes[m].symbol = EPSILON) => nodes[m].value = ""

\* an accepted tree with a keyword leaf whose value is its symbol, a leaf
\* whose value differs from its symbol, and an epsilon leaf
C29_Witness ==
    /\ pc = "accepted"
    /\ \E m \in DOMAIN nodes :
           nodes[m].value # "" /\ nodes[m].value = nodes[m].symbol
    /\ \E m \in DOMAIN nodes :
           nodes[m].value # "" /\ nodes[m].value # nodes[m].symbol
    /\ \E m \in DOMAIN nodes : nodes[m].symbol = EPSILON


\* the nodes that have n among their children
ParentsOf(n) ==
    {m \in DOMAIN nodes :
        \E j \in DOMAIN nodes[m].children : nodes[m].children[j] = n}

\* C30: in the tree of an accepting parse, is_terminal is true of a node
\* exactly when the node's symbol is a terminal of the grammar; every
\* nonterminal node has at least one child; every epsilon node has no
\* children and is the only child of its parent.
C30_TerminalNodes ==
    pc = "accepted" =>
        \A n \in RunNodes :
            /\ node_is_terminal(n) <=>
                   nodes[n].symbol \in Range(TERMINALS) \ {EPSILON}
            /\ is_nonterminal(nodes[n].symbol) => Len(nodes[n].children) >= 1
            /\ nodes[n].symbol = EPSILON =>
                   /\ nodes[n].children = <<>>
                   /\ node_is_epsilon(n)
                   /\ \E m \in RunNodes :
                          /\ ParentsOf(n) = {m}
                          /\ nodes[m].children = <<n>>

\* an accepted tree with terminal leaves, several epsilon leaves and
\* nonterminal nodes of one child and of more
C30_Witness ==
    /\ pc = "accepted"
    /\ Cardinality({n \in DOMAIN nodes : nodes[n].symbol = EPSILON}) >= 3
    /\ \E n \in DOMAIN nodes : node_is_terminal(n) /\ nodes[n].symbol = "id"
    /\ \E n \in DOMAIN nodes :
           is_nonterminal(nodes[n].symbol) /\ Len(nodes[n].children) >= 2


\* the places of the children lists: <<m, j>> is the j-th child of node m
ChildSlots ==
    UNION {{<<m, j>> : j \in DOMAIN nodes[m].children} : m \in DOMAIN nodes}

ChildIn(slot) == nodes[slot[1]].children[slot[2]]

\* the roots made so far: by the first call of parse and by the current one
Roots == IF tree = NoNode THEN {} ELSE {1, tree}

\* C31: in every state of parse, on a first or a second call, the nodes
\* form trees: the nodes found in children lists are exactly the nodes
\* other than the roots, none is found in two places (so each has one
\* parent and is there once), and every child was created after its
\* parent, so that no node is its own ancestor.
C31_TreeShaped ==
    /\ {ChildIn(slot) : slot \in ChildSlots} = DOMAIN nodes \ Roots
    /\ Cardinality(ChildSlots) = Cardinality(DOMAIN nodes \ Roots)
    /\ \A slot \in ChildSlots : ChildIn(slot) > slot[1]
    /\ \A r \in Roots : nodes[r].symbol = "Program"

\* a second call is under way after a first that built a tree of several
\* levels, and has added nodes to its own root
C31_Witness ==
    /\ recorded # NoOutcome
    /\ pc = "running"
    /\ tree > 10
    /\ Len(nodes) > tree + 5
    /\ \E slot \in ChildSlots : slot[1] > tree


\* the iteration pops a nonterminal whose table cell, under the current
\* token, holds a production other than epsilon
IsExpansionStep ==
    /\ pc = "running"
    /\ Len(stack) > 0
    /\ is_nonterminal(top_symbol)
    /\ top_symbol \in DOMAIN table
    /\ current_terminal \in DOMAIN table[top_symbol]
    /\ table[top_symbol][current_terminal] # <<EPSILON>>

\* C32: an iteration that expands a nonterminal by a production X1..Xn
\* other than epsilon creates n nodes with the symbols X1..Xn, without
\* value or children, and appends them in this order to the children of
\* the popped node; it pushes the pairs in reverse, so that afterwards the
\* stack read from the top downward is (X1, node 1) .. (Xn, node n) and
\* then what was below the popped entry; the cursor stays.
C32_ExpansionOrder ==
    [][IsExpansionStep =>
          LET X == table[top_symbol][current_terminal]
              n == Len(X)
              new(i) == Len(nodes) + i
          IN  /\ Len(nodes') = Len(nodes) + n
              /\ \A i \in 1..n : nodes'[new(i)] = ParseTreeNode(X[i])
              /\ nodes'[top_node].children =
                     nodes[top_node].children \o [i \in 1..n |-> new(i)]
              /\ \A m \in DOMAIN nodes :
                     m # top_node => nodes'[m] = nodes[m]
              /\ Len(stack') = Len(stack) - 1 + n
              /\ \A i \in 1..n :
                     stack'[Len(stack') + 1 - i] = <<X[i], new(i)>>
              /\ SubSeq(stack', 1, Len(stack) - 1) = popped
              /\ pos' = pos
              /\ pc' = "running"]_<<vars, lexvars>>

\* an if statement has just been expanded: `if` is on top of the stack with
\* its new node, and BoolExpr, then, Statement, ElsePart are below it
C32_Witness ==
    /\ pc = "running"
    /\ Len(stack) >= 6
    /\ top_symbol = "if"
    /\ nodes[top_node] = ParseTreeNode("if")
    /\ [i \in 1..5 |-> stack[Len(stack) + 1 - i][1]] =
           <<"if", "BoolExpr", "then", "Statement", "ElsePart">>
    /\ [i \in 1..5 |-> stack[Len(stack) + 1 - i][2]] =
           [i \in 1..5 |-> top_node + i - 1]


\* C33: at every iteration of the loop of parse, on a first or a second
\* call, the bottom entry of the stack is ($, no node) and no other entry
\* is $; every other entry is (s, n) where s is a terminal of TERMINALS or a
\* nonterminal with a row in the parse table, never epsilon, and n is a
\* node of the current call with symbol s, no children and no value, held
\* by no other entry; so the entry popped next falls under the accept
\* test, the terminal branch or the nonterminal branch.
C33_StackEntries ==
    pc = "running" =>
        /\ Len(stack) >= 1
        /\ stack[1] = <<"$", NoNode>>
        /\ \A i \in 2..Len(stack) :
               LET s == stack[i][1]
                   n == stack[i][2]
               IN  /\ s # "$"
                   /\ s # EPSILON
                   /\ \/ s \in Range(TERMINALS)
                      \/ s \in Range(NONTERMINALS) /\ s \in DOMAIN table
                   /\ n \in RunNodes
                   /\ nodes[n] = ParseTreeNode(s)
                   /\ \A j \in 2..Len(stack) : j # i => stack[j][2] # n
        /\ \/ accept_condition
           \/ is_terminal(top_symbol) /\ top_symbol # EPSILON
           \/ is_nonterminal(top_symbol)

\* a stack of $ and several terminals and nonterminals, each with its own
\* untouched node, in the middle of a statement
C33_Witness ==
    /\ pc = "running"
    /\ Len(stack) >= 7
    /\ pos >= 5
    /\ \E i \in 2..Len(stack) : stack[i][1] \in Range(TERMINALS)
    /\ top_symbol \in Range(NONTERMINALS)


\* C34: parse ends on every token list that ends with the end-of-input
\* token: after finitely many iterations it has accepted or raised an
\* error, so no token is followed by expansions without end.
C34_ParseTerminates == <>(pc \in {"accepted", "raised"})

\* a parse has ended after at least sixty iterations
C34_Witness ==
    /\ pc \in {"accepted", "raised"}
    /\ step >= 60
    /\ pos >= 18


\* FIRST of a nonterminal as the fixed point over PRODUCTIONS gives it, with
\* EPSILON for a nonterminal that derives the empty string
FirstWithEpsilon(A) ==
    ComputedFirst[A] \cup (IF A \in Nullable THEN {EPSILON} ELSE {})

\* C35 (fails on the code): for every nonterminal, here every row of the
\* table the parser consults, the declared FIRST set equals the FIRST set
\* computed from PRODUCTIONS, propagation through epsilon-deriving symbols
\* included.
C35_DeclaredFirst ==
    \A A \in DOMAIN table :
        /\ A \in DOMAIN FIRST
        /\ FIRST[A] = FirstWithEpsilon(A)

\* C36 (fails on the code): for every nonterminal, here every row of the
\* table the parser consults, the declared FOLLOW set equals the FOLLOW set
\* computed from PRODUCTIONS by the standard fixed point, "$" following
\* Program, and every terminal whose cell in the row is the epsilon
\* production lies in the declared FOLLOW set.
C36_DeclaredFollow ==
    \A A \in DOMAIN table :
        /\ A \in DOMAIN FOLLOW
        /\ FOLLOW[A] = ComputedFollow[A]
        /\ \A t \in DOMAIN table[A] :
               get_production(A, t) = <<EPSILON>> => t \in FOLLOW[A]

\* is there a character, or the end of the source, at this line and column
HasOffset(l, c) ==
    \E p \in 0..Len(source) : LineAt(p) = l /\ ColumnAt(p) = c

\* the offsets at which the lexeme of the i-th token begins and ends, by
\* the line and the column recorded in the token
TokenStart(i) == OffsetOf(lexer_tokens[i].line, lexer_tokens[i].column)
TokenEnd(i) == TokenStart(i) + Len(lexer_tokens[i].value)

\* a comment opens at offset p
OpensComment(p) ==
    CharAt(p) = "{" \/ (CharAt(p) = "(" /\ CharAt(p + 1) = "*")

\* the source from offset p up to offset q is whitespace and comments only
RECURSIVE OnlyLayout(_, _)
OnlyLayout(p, q) ==
    IF p = q THEN TRUE
    ELSE IF p > q THEN FALSE
    ELSE IF CharAt(p) \in WhiteSpace THEN OnlyLayout(p + 1, q)
    ELSE IF OpensComment(p) THEN OnlyLayout(CommentEnd(p), q)
    ELSE FALSE

\* C37: the line and the column of the scanner are those of its offset in
\* the source (the line is one more than the number of newlines before the
\* offset, the column restarts at 1 after a newline and grows by one with
\* every other character); when tokenize has returned, the lexeme of each
\* token but the last is the text of the source at the token's line and
\* column, the tokens are in the order of the source without overlap, and
\* what lies before, between and after them is whitespace and comments.
C37_LexemesInSource ==
    /\ lexer_pc \in {"scanning", "returned", "raised"} =>
           /\ lexer_pos <= Len(source)
           /\ lexer_line = LineAt(lexer_pos)
           /\ lexer_column = ColumnAt(lexer_pos)
    /\ lexer_pc = "returned" =>
           LET n == Len(lexer_tokens) - 1
           IN  /\ n >= 0
               /\ \A i \in 1..n :
                      /\ lexer_tokens[i].value # ""
                      /\ HasOffset(lexer_tokens[i].line, lexer_tokens[i].column)
                      /\ TokenEnd(i) <= Len(source)
                      /\ SubSeq(source, TokenStart(i) + 1, TokenEnd(i))
                             = lexer_tokens[i].value
               /\ \A i \in 0..n :
                      OnlyLayout(IF i = 0 THEN 0 ELSE TokenEnd(i),
                                 IF i = n THEN Len(source)
                                 ELSE TokenStart(i + 1))

\* tokenize returned for a text of two lines with a token after a comment
\* on the second
C37_Witness ==
    /\ lexer_pc = "returned"
    /\ source = "\n{}x"
    /\ lexer_tokens = <<Token("ID", "x", 2, 3), Token("EOF", "$", 2, 4)>>

\* the scanner is at `(` with `*` after it
AtParenStar ==
    /\ lexer_pc = "scanning"
    /\ CharAt(lexer_pos) = "("
    /\ CharAt(lexer_pos + 1) = "*"

\* the offsets after offset p where a `}` stands, and those from offset p
\* on where `*)` begins
BracesAfter(p) == {q \in (p + 1)..(Len(source) - 1) : CharAt(q) = "}"}
StarParensFrom(p) ==
    {q \in p..(Len(source) - 2) : CharAt(q) = "*" /\ CharAt(q + 1) = ")"}

\* C38: comment openers come before tokens and comments do not nest: an
\* iteration of the scanner at `(` followed by `*` appends no token (no
\* LPAREN, no MULTIPLY) and goes just past the first `*)` that begins
\* after the opener, or to the end of the source without one; an
\* iteration at `{` goes just past the first `}` after it, whatever
\* openers lie between, or to the end of the source; a `}` the scanner
\* then meets is outside every comment and raises LexerError there.
C38_CommentsDoNotNest ==
    [][/\ AtParenStar =>
              /\ lexer_tokens' = lexer_tokens
              /\ lexer_pc' = "scanning"
              /\ lexer_pos' =
                     IF StarParensFrom(lexer_pos + 2) = {} THEN Len(source)
                     ELSE Least(StarParensFrom(lexer_pos + 2)) + 2
       /\ (lexer_pc = "scanning" /\ CharAt(lexer_pos) = "{") =>
              /\ lexer_tokens' = lexer_tokens
              /\ lexer_pc' = "scanning"
              /\ lexer_pos' =
                     IF BracesAfter(lexer_pos) = {} THEN Len(source)
                     ELSE Least(BracesAfter(lexer_pos)) + 1
       /\ (lexer_pc = "scanning" /\ CharAt(lexer_pos) = "}") =>
              /\ lexer_pc' = "raised"
              /\ lexer_error' =
                     LexerError(<<"Unexpected character:", "}">>,
                                LineAt(lexer_pos), ColumnAt(lexer_pos))
              /\ lexer_tokens' = lexer_tokens
      ]_<<vars, lexvars>>

\* the second `}` of `{ { } }` raised the error, at column 7
C38_Witness ==
    /\ source = "{ { } }"
    /\ lexer_pc = "raised"
    /\ lexer_pos = 6
    /\ lexer_tokens = <<>>
    /\ lexer_error = LexerError(<<"Unexpected character:", "}">>, 1, 7)

\* C39: tokenize terminates on every source: it returns or raises in the
\* end; each iteration of the scanning loop either raises LexerError,
\* leaving the scan position, or moves the scan position forward by one
\* character at least; and the scan position never exceeds the length of
\* the source.
C39_TokenizeTerminates ==
    /\ <>(lexer_pc \in {"returned", "raised"})
    /\ [](lexer_pos <= Len(source))
    /\ [][(lexer_pc = "scanning" /\ lexer_pos < Len(source)) =>
              \/ /\ lexer_pc' = "raised"
                 /\ lexer_error' # NoLexerError
                 /\ lexer_pos' = lexer_pos
              \/ /\ lexer_pc' = "scanning"
                 /\ lexer_pos' >= lexer_pos + 1
                 /\ lexer_pos' <= Len(source)
      ]_<<vars, lexvars>>

\* tokenize returned at the end of a source of two lines after five
\* iterations: one on a comment, two on whitespace and two that gave a token
C39_Witness ==
    /\ lexer_pc = "returned"
    /\ source = "{x}\n3.5 a"
    /\ lexer_pos = Len(source)
    /\ lexer_tokens = <<Token("NUM", "3.5", 2, 1), Token("ID", "a", 2, 5),
                        Token("EOF", "$", 2, 6)>>
==============================================================================
